---- MODULE Spec2Model ----
(***************************************************************************)
(* A model of the AWS-S3 cloud environment of rocksdb-cloud (AwsEnv and    *)
(* the S3 readable / writable files).                                      *)
(*                                                                         *)
(* Strings are sequences of tokens: "db1" + "/" + "000123.sst" is          *)
(* <<"db1", "/", "000123", ".sst">>, so that concatenation, basename and   *)
(* prefix tests are computed the way the code computes them.               *)
(*                                                                         *)
(* The module holds several specifications over the same variables, one    *)
(* per part of the program:                                                *)
(*   SpecRead   the router's read path (NewRandomAccessFile, CopyFromS3)   *)
(*   SpecWrite  the S3 writable file (NewWritableFile, Append, Sync, Close)*)
(*   SpecDel    DeleteFile, the deletion worker thread and the destructor  *)
(*   FairDel    SpecDel with the scheduling fairness of the threads        *)
(*   SpecDbid   the dbid registry                                          *)
(***************************************************************************)
EXTENDS Integers, Sequences, FiniteSets, TLC

VARIABLES
  cfg,              \* the environment's configuration (fixed at construction)
  local,            \* the local file system: path -> size of the file
  s3,               \* the object store: <<bucket, key>> -> object
  now,              \* the clock (NowMicros / steady_clock)
  wf,               \* the S3WritableFile handed out by NewWritableFile
  last,             \* the last operation, its arguments, status and requests
  files_to_delete,  \* AwsEnv::files_to_delete_
  running,          \* AwsEnv::running_
  lock,             \* the holder of file_deletion_lock_
  worker,           \* the deletion thread: position, held entry, cv state
  threads,          \* the DeleteFile callers and the destructor: positions
  hist              \* history: the entries enqueued for deletion (SpecDel),
                    \* the registry a caller expects (SpecDbid)

vars == <<cfg, local, s3, now, wf, last, files_to_delete, running, lock,
          worker, threads, hist>>

delVars == <<files_to_delete, running, lock, worker, threads, hist>>

(***************************************************************************)
(* Bounds of the model.                                                    *)
(***************************************************************************)
MaxSize == 2
MaxPeriod == 1
MaxNow == 2002

(***************************************************************************)
(* Status codes (rocksdb::Status).                                         *)
(***************************************************************************)
OK == "OK"
NotFound == "NotFound"
IOError == "IOError"
InvalidArgument == "InvalidArgument"
NotSupported == "NotSupported"
TimedOut == "TimedOut"

Null == [kind |-> "null"]

NoThread == "none"

(***************************************************************************)
(* Strings.                                                                *)
(***************************************************************************)
RECURSIVE rfind(_, _, _)
rfind(s, ch, i) ==
  IF i = 0 THEN 0 ELSE IF s[i] = ch THEN i ELSE rfind(s, ch, i - 1)

basename(pathname) ==
  LET pos == rfind(pathname, "/", Len(pathname))
  IN IF pos = 0 THEN pathname ELSE SubSeq(pathname, pos + 1, Len(pathname))

dirname(pathname) ==
  LET pos == rfind(pathname, "/", Len(pathname))
  IN IF pos = 0 THEN <<>> ELSE SubSeq(pathname, 1, pos - 1)

IsPrefix(p, s) == Len(p) <= Len(s) /\ SubSeq(s, 1, Len(p)) = p

EndsWith(s, tok) == Len(s) > 0 /\ s[Len(s)] = tok

\* The engine's file name conventions, decided on the leaf name.
IsSstFile(fname) == EndsWith(basename(fname), ".sst")
IsLogFile(fname) == EndsWith(basename(fname), ".log")
IsManifestFile(fname) == IsPrefix(<<"MANIFEST">>, basename(fname))
IsIdentityFile(fname) == basename(fname) = <<"IDENTITY">>

GetBucket(bucket_prefix) == <<"rockset.">> \o bucket_prefix

(***************************************************************************)
(* The environment's configuration.                                        *)
(***************************************************************************)
has_src_bucket_(c) == c.src_bucket_prefix_ # <<>>
has_dest_bucket_(c) == c.dest_bucket_prefix_ # <<>>

has_two_unique_buckets_(c) ==
  /\ has_src_bucket_(c)
  /\ has_dest_bucket_(c)
  /\ \/ c.src_bucket_prefix_ # c.dest_bucket_prefix_
     \/ c.src_object_prefix_ # c.dest_object_prefix_

srcname(c, localname) == c.src_object_prefix_ \o <<"/">> \o basename(localname)

\* A destname built on the object prefix of src.
destname_SrcPrefix(c, localname) ==
  c.src_object_prefix_ \o <<"/">> \o basename(localname)

\* A destname that keeps the directories of the local name.
destname_FullPath(c, localname) == c.dest_object_prefix_ \o <<"/">> \o localname

destname(c, localname) == c.dest_object_prefix_ \o <<"/">> \o basename(localname)

\* The bucket bindings the model is run with: none / src only / dest only /
\* the same bucket twice / two prefixes of one bucket / two buckets.
Bindings ==
  { [src_bucket_prefix_ |-> sb, src_object_prefix_ |-> sp,
     dest_bucket_prefix_ |-> db, dest_object_prefix_ |-> dp] :
      <<sb, sp, db, dp>> \in
        { << <<>>, <<>>, <<>>, <<>> >>,
          << <<"acme">>, <<"db1">>, <<>>, <<>> >>,
          << <<>>, <<>>, <<"acme">>, <<"db1">> >>,
          << <<"acme">>, <<"db1">>, <<"acme">>, <<"db1">> >>,
          << <<"acme">>, <<"db1">>, <<"acme">>, <<"db2">> >>,
          << <<"acme">>, <<"db1">>, <<"other">>, <<"db1">> >> } }

Options(keep_sst, keep_log, periodicity) ==
  [keep_local_sst_files |-> keep_sst,
   keep_local_log_files |-> keep_log,
   manifest_durable_periodicity_millis |-> periodicity]

\* Two records joined into one.
Join(r1, r2) ==
  [f \in (DOMAIN r1) \cup (DOMAIN r2) |->
     IF f \in DOMAIN r1 THEN r1[f] ELSE r2[f]]

(***************************************************************************)
(* The object store.  An object is [size, metadata]; a request that the    *)
(* caller marks as failing ends with an error that is not a "not found".   *)
(***************************************************************************)
Object(size, metadata) == [size |-> size, metadata |-> metadata]

NoMetadata == <<>>

Request(op, bucket, key) == [op |-> op, bucket |-> bucket, key |-> key]

Stored(store, bucket, key) == <<bucket, key>> \in DOMAIN store

StorePut(store, bucket, key, obj) ==
  [x \in (DOMAIN store) \cup {<<bucket, key>>} |->
     IF x = <<bucket, key>> THEN obj ELSE store[x]]

StoreDelete(store, bucket, key) ==
  [x \in (DOMAIN store) \ {<<bucket, key>>} |-> store[x]]

\* Head / Get: success with the object, NO_SUCH_KEY, or another error.
HeadObject(store, bucket, key, fails) ==
  IF fails THEN [ok |-> FALSE, err |-> "NETWORK_CONNECTION"]
  ELSE IF Stored(store, bucket, key)
       THEN [ok |-> TRUE, err |-> "", obj |-> store[<<bucket, key>>]]
       ELSE [ok |-> FALSE, err |-> "NO_SUCH_KEY"]

GetObject(store, bucket, key, fails) == HeadObject(store, bucket, key, fails)

IsNoSuch(err) == err \in {"NO_SUCH_BUCKET", "NO_SUCH_KEY", "RESOURCE_NOT_FOUND"}

(***************************************************************************)
(* The local file system (the base env).                                   *)
(***************************************************************************)
LocalExists(loc, fname) == fname \in DOMAIN loc

LocalWrite(loc, fname, size) ==
  [x \in (DOMAIN loc) \cup {fname} |-> IF x = fname THEN size ELSE loc[x]]

LocalRemove(loc, fname) == [x \in (DOMAIN loc) \ {fname} |-> loc[x]]

LocalRename(loc, from, to) ==
  IF LocalExists(loc, from)
  THEN LocalWrite(LocalRemove(loc, from), to, loc[from])
  ELSE loc

PosixFileExists(loc, fname) == IF LocalExists(loc, fname) THEN OK ELSE NotFound

\* Opening a local file for reading: fails when the file is not there.
PosixOpen(loc, fname) == IF LocalExists(loc, fname) THEN OK ELSE IOError

PosixFile(fname) == [kind |-> "posix", fname |-> fname]

(***************************************************************************)
(* AwsEnv: file classification and option check.                           *)
(***************************************************************************)
\* identity is left unset by the code for an sst name; no caller reads it
\* then (sstfile || manifest || identity short-circuits).
GetFileType(fname) ==
  LET sstFile == IsSstFile(fname)
  IN [sst |-> sstFile,
      log |-> ~sstFile /\ IsLogFile(fname),
      manifest |-> ~sstFile /\ IsManifestFile(fname),
      identity |-> ~sstFile /\ IsIdentityFile(fname)]

CheckOption(c, options) ==
  IF options.use_mmap_reads /\ ~c.keep_local_sst_files
  THEN InvalidArgument
  ELSE OK

(***************************************************************************)
(* S3ReadableFile: the constructor heads the object (GetFileInfo).         *)
(***************************************************************************)
GetFileInfo(store, s3_bucket, s3_object, fails) ==
  LET outcome == HeadObject(store, s3_bucket, s3_object, fails)
  IN IF ~outcome.ok
     THEN [status |-> IF IsNoSuch(outcome.err) THEN NotFound ELSE IOError,
           file_size |-> 0]
     ELSE [status |-> OK, file_size |-> outcome.obj.size]

S3ReadableFile(store, bucket_prefix, fname, fails) ==
  LET info == GetFileInfo(store, GetBucket(bucket_prefix), fname, fails)
  IN [kind |-> "s3",
      s3_bucket |-> GetBucket(bucket_prefix),
      s3_object |-> fname,
      offset |-> 0,
      file_size |-> info.file_size,
      status |-> info.status]

(***************************************************************************)
(* S3WritableFile::CopyFromS3: GET into <path>.tmp, then rename.  The      *)
(* response stream is the tmp file, written when the GET succeeds.  A zero *)
(* size download is refused, and the tmp file is not removed.              *)
(***************************************************************************)
TmpName(destination_pathname) == destination_pathname \o <<".tmp">>

CopyFromS3(loc, store, s3_bucket, source_object, destination_pathname, fails) ==
  LET tmp_destination == TmpName(destination_pathname)
      outcome == GetObject(store, s3_bucket, source_object, fails)
  IN IF ~outcome.ok
     THEN [st |-> IOError, local |-> loc]
     ELSE LET loc1 == LocalWrite(loc, tmp_destination, outcome.obj.size)
              file_size == loc1[tmp_destination]
          IN IF file_size = 0
             THEN [st |-> IOError, local |-> loc1]
             ELSE [st |-> OK,
                   local |-> LocalRename(loc1, tmp_destination,
                                         destination_pathname)]

(***************************************************************************)
(* KinesisSystem: the path of a log file in the tailer's cache, and the    *)
(* retried open of it (the file is there or the retries time out).         *)
(***************************************************************************)
GetCachePath(fname) == <<"cache", "/">> \o basename(fname)

RetryOpen(loc, pathname) == IF LocalExists(loc, pathname) THEN OK ELSE TimedOut

(***************************************************************************)
(* AwsEnv::NewRandomAccessFile.  fault.dest / fault.src: the requests to   *)
(* that bucket fail during this call.  The value is the status, the file   *)
(* handed out, the local file system afterwards and the requests issued.   *)
(***************************************************************************)
Outcome(st, result, loc, calls) ==
  [st |-> st, result |-> result, local |-> loc, calls |-> calls]

\* OpenRemote as it would be if the src bucket were never consulted.
OpenRemote_NoSrc(c, loc, store, fname, fault, st, calls) ==
  LET d == S3ReadableFile(store, c.dest_bucket_prefix_, destname(c, fname),
                          fault.dest)
      st1 == IF has_dest_bucket_(c) THEN d.status ELSE st
      calls1 == IF has_dest_bucket_(c)
                THEN Append(calls, Request("Head", d.s3_bucket, d.s3_object))
                ELSE calls
  IN Outcome(st1, IF st1 = OK THEN d ELSE Null, loc, calls1)

\* The second half: open the object remotely, dest first and then src.
OpenRemote(c, loc, store, fname, fault, st, calls) ==
  LET d == S3ReadableFile(store, c.dest_bucket_prefix_, destname(c, fname),
                          fault.dest)
      st1 == IF has_dest_bucket_(c) THEN d.status ELSE st
      calls1 == IF has_dest_bucket_(c)
                THEN Append(calls, Request("Head", d.s3_bucket, d.s3_object))
                ELSE calls
      s == S3ReadableFile(store, c.src_bucket_prefix_, srcname(c, fname),
                          fault.src)
      trySrc == st1 # OK /\ has_src_bucket_(c)
      st2 == IF trySrc THEN s.status ELSE st1
      calls2 == IF trySrc
                THEN Append(calls1, Request("Head", s.s3_bucket, s.s3_object))
                ELSE calls1
      f == IF trySrc THEN s ELSE IF has_dest_bucket_(c) THEN d ELSE Null
  IN Outcome(st2, IF st2 = OK THEN f ELSE Null, loc, calls2)

\* A copy to the local path that asks dest alone.
CopyToLocal_DestOnly(c, loc, store, fname, fault, st) ==
  LET destBucket == GetBucket(c.dest_bucket_prefix_)
      d == CopyFromS3(loc, store, destBucket, destname(c, fname), fname,
                      fault.dest)
      st1 == IF has_dest_bucket_(c) THEN d.st ELSE st
      loc1 == IF has_dest_bucket_(c) THEN d.local ELSE loc
      calls1 == IF has_dest_bucket_(c)
                THEN <<Request("Get", destBucket, destname(c, fname))>>
                ELSE <<>>
      st3 == IF st1 = OK THEN PosixOpen(loc1, fname) ELSE st1
  IN Outcome(st3, IF st3 = OK THEN PosixFile(fname) ELSE Null, loc1, calls1)

\* The first half, with keep_local_sst_files: copy the object to the local
\* path, from dest and then from src, and open it locally.
CopyToLocal(c, loc, store, fname, fault, st) ==
  LET destBucket == GetBucket(c.dest_bucket_prefix_)
      srcBucket == GetBucket(c.src_bucket_prefix_)
      d == CopyFromS3(loc, store, destBucket, destname(c, fname), fname,
                      fault.dest)
      st1 == IF has_dest_bucket_(c) THEN d.st ELSE st
      loc1 == IF has_dest_bucket_(c) THEN d.local ELSE loc
      calls1 == IF has_dest_bucket_(c)
                THEN <<Request("Get", destBucket, destname(c, fname))>>
                ELSE <<>>
      trySrc == st1 # OK /\ has_src_bucket_(c)
      s == CopyFromS3(loc1, store, srcBucket, srcname(c, fname), fname,
                      fault.src)
      st2 == IF trySrc THEN s.st ELSE st1
      loc2 == IF trySrc THEN s.local ELSE loc1
      calls2 == IF trySrc
                THEN Append(calls1, Request("Get", srcBucket, srcname(c, fname)))
                ELSE calls1
      st3 == IF st2 = OK THEN PosixOpen(loc2, fname) ELSE st2
  IN Outcome(st3, IF st3 = OK THEN PosixFile(fname) ELSE Null, loc2, calls2)

NewRandomAccessFile(c, loc, store, fname, options, fault) ==
  LET type == GetFileType(fname)
      chk == CheckOption(c, options)
      st == PosixOpen(loc, fname)
  IN IF chk # OK THEN Outcome(chk, Null, loc, <<>>)
     ELSE IF type.sst \/ type.manifest \/ type.identity THEN
       IF st = OK THEN Outcome(OK, PosixFile(fname), loc, <<>>)
       ELSE IF PosixFileExists(loc, fname) # NotFound
       THEN Outcome(st, Null, loc, <<>>)
       ELSE LET a == IF c.keep_local_sst_files
                     THEN CopyToLocal(c, loc, store, fname, fault, st)
                     ELSE Outcome(st, Null, loc, <<>>)
            IN IF a.st = OK THEN a
               ELSE OpenRemote(c, a.local, store, fname, fault, a.st, a.calls)
     ELSE IF type.log /\ ~c.keep_local_log_files THEN
       LET pathname == GetCachePath(fname)
           r == RetryOpen(loc, pathname)
       IN Outcome(r, IF r = OK THEN PosixFile(pathname) ELSE Null, loc, <<>>)
     ELSE Outcome(st, IF st = OK THEN PosixFile(fname) ELSE Null, loc, <<>>)

(***************************************************************************)
(* File names and initial contents the specifications are run with.        *)
(***************************************************************************)
SstName == <<"dbdir", "/", "000123", ".sst">>
ManifestName == <<"dbdir", "/", "MANIFEST", "-000001">>
CurrentName == <<"dbdir", "/", "CURRENT">>

NoFault == [dest |-> FALSE, src |-> FALSE]
Faults == [dest : BOOLEAN, src : BOOLEAN]

\* Where a local name lives in the two buckets.
DestSlot(c, fname) == <<GetBucket(c.dest_bucket_prefix_), destname(c, fname)>>
SrcSlot(c, fname) == <<GetBucket(c.src_bucket_prefix_), srcname(c, fname)>>

InDest(c, store, fname) ==
  has_dest_bucket_(c) /\ DestSlot(c, fname) \in DOMAIN store
InSrc(c, store, fname) ==
  has_src_bucket_(c) /\ SrcSlot(c, fname) \in DOMAIN store

Slots(c, names) ==
  {DestSlot(c, f) : f \in {n \in names : has_dest_bucket_(c)}}
    \cup {SrcSlot(c, f) : f \in {n \in names : has_src_bucket_(c)}}

\* Every store that holds, in each of the slots, nothing or an object of a
\* size up to max (0 included: an empty object).
Stores(slots, max) ==
  UNION { [d -> {Object(n, NoMetadata) : n \in 0..max}] : d \in SUBSET slots }

\* Every local file system over the names, each file of size 1..max.
Locals(names, max) == UNION { [d -> 1..max] : d \in SUBSET names }

Idle == [op |-> "none"]

DelInit ==
  /\ files_to_delete = <<>>
  /\ running = TRUE
  /\ lock = NoThread
  /\ worker = [pc |-> "off"]
  /\ threads = <<>>
  /\ hist = <<>>

(***************************************************************************)
(* SpecRead: the read path of the router over every binding, every local   *)
(* and remote placement of one sst file, and both values of                *)
(* keep_local_sst_files.                                                   *)
(***************************************************************************)
ReadNames == {SstName, CurrentName}

ReadInit ==
  /\ cfg \in {Join(b, Options(k, TRUE, 0)) : b \in Bindings, k \in BOOLEAN}
  /\ local \in Locals(ReadNames, 1)
  /\ s3 \in Stores(Slots(cfg, {SstName}), 1)
  /\ now = 0
  /\ wf = Null
  /\ last = Idle
  /\ DelInit

DoNewRandomAccessFile(fname, options, fault) ==
  LET r == NewRandomAccessFile(cfg, local, s3, fname, options, fault)
  IN /\ local' = r.local
     /\ last' = [op |-> "NewRandomAccessFile", fname |-> fname,
                 options |-> options, fault |-> fault,
                 st |-> r.st, result |-> r.result, calls |-> r.calls,
                 pre |-> [local |-> LocalExists(local, fname),
                          dest |-> InDest(cfg, s3, fname),
                          src |-> InSrc(cfg, s3, fname)]]
     /\ UNCHANGED <<cfg, s3, now, wf>>
     /\ UNCHANGED delVars

ReadNext ==
  \E fname \in ReadNames, options \in [use_mmap_reads : BOOLEAN],
     fault \in Faults :
    DoNewRandomAccessFile(fname, options, fault)

SpecRead == ReadInit /\ [][ReadNext]_vars

(***************************************************************************)
(* Claims on the read path (checked under SpecRead).                       *)
(***************************************************************************)
\* The last operation was NewRandomAccessFile on an sst name that was
\* absent locally and absent from dest, in an environment with a src
\* bucket whose requests were answered.
OnlySrcCase ==
  /\ last.op = "NewRandomAccessFile"
  /\ IsSstFile(last.fname)
  /\ has_src_bucket_(cfg)
  /\ ~last.pre.local
  /\ ~last.pre.dest
  /\ ~last.fault.src

\* C1 (as stated): for every configuration with a src bucket,
\* NewRandomAccessFile on an sst name absent locally and absent from dest
\* returns OK with a readable file when the name is in src, for either
\* value of keep_local_sst_files, and NotFound when it is not in src.
C1_FallbackToSrc_AsStated ==
  OnlySrcCase =>
    IF last.pre.src
    THEN last.st = OK /\ last.result # Null
    ELSE last.st = NotFound

\* C1 (amended): the same, for calls whose EnvOptions pass CheckOption
\* (not use_mmap_reads together with keep_local_sst_files = false); a
\* call that does not pass returns InvalidArgument before any tier is read.
C1_FallbackToSrc ==
  /\ (OnlySrcCase /\ CheckOption(cfg, last.options) = OK) =>
       IF last.pre.src
       THEN last.st = OK /\ last.result # Null
       ELSE last.st = NotFound
  /\ (OnlySrcCase /\ CheckOption(cfg, last.options) # OK) =>
       last.st = InvalidArgument /\ last.result = Null /\ last.calls = <<>>

\* C1 witness: with dest and src both configured and distinct, an sst
\* found only in src was opened, by a call that read dest first.
C1_Witness ==
  /\ OnlySrcCase
  /\ has_two_unique_buckets_(cfg)
  /\ last.pre.src
  /\ last.st = OK
  /\ last.result # Null
  /\ Len(last.calls) >= 2

\* A download of an empty object happened in the last NewRandomAccessFile:
\* with keep_local_sst_files the object of size 0 was fetched by CopyFromS3.
EmptyDownload ==
  /\ last.op = "NewRandomAccessFile"
  /\ ~last.pre.local
  /\ \E i \in DOMAIN last.calls :
       /\ last.calls[i].op = "Get"
       /\ last.fault = NoFault
       /\ Stored(s3, last.calls[i].bucket, last.calls[i].key)
       /\ s3[<<last.calls[i].bucket, last.calls[i].key>>].size = 0

\* C8 (download half): downloading a zero-length object (CopyFromS3)
\* leaves no partial local file: neither the destination path nor its
\* ".tmp" companion exists afterwards.
C8_NoPartialFile ==
  EmptyDownload =>
    /\ ~LocalExists(local, TmpName(last.fname))
    /\ (LocalExists(local, last.fname) => last.result = PosixFile(last.fname))

(***************************************************************************)
(* S3WritableFile.  temp_file_ is TRUE while the local handle is open.     *)
(* uploaded_at is history: the time of the last PUT of this file that      *)
(* succeeded (0 before the first).                                         *)
(***************************************************************************)
MicrosPerMilli == 1000

S3WritableFile(local_fname, bucket_prefix, cloud_fname, cloud_env_options) ==
  [kind |-> "s3",
   fname_ |-> local_fname,
   s3_bucket_ |-> GetBucket(bucket_prefix),
   s3_object_ |-> cloud_fname,
   is_manifest_ |-> IsManifestFile(local_fname),
   manifest_durable_periodicity_millis_ |->
     cloud_env_options.manifest_durable_periodicity_millis,
   manifest_last_sync_time_ |-> 0,
   status_ |-> OK,
   temp_file_ |-> TRUE,
   uploaded_at |-> 0]

\* What an operation of the file leaves: its status, the file, the local
\* file system, the store and the requests issued.
Effect(st, w, loc, store, calls) ==
  [st |-> st, wf |-> w, local |-> loc, store |-> store, calls |-> calls]

LocalSize(loc, fname) == IF LocalExists(loc, fname) THEN loc[fname] ELSE 0

\* CopyToS3: a local file of size zero is refused before any request.
CopyToS3(loc, store, fname, s3_bucket, s3_object, putFails) ==
  LET fsize == LocalSize(loc, fname)
      put == <<Request("Put", s3_bucket, s3_object)>>
  IN IF fsize = 0
     THEN [st |-> IOError, store |-> store, calls |-> <<>>]
     ELSE IF putFails
     THEN [st |-> IOError, store |-> store, calls |-> put]
     ELSE [st |-> OK,
           store |-> StorePut(store, s3_bucket, s3_object,
                              Object(fsize, NoMetadata)),
           calls |-> put]

\* The cadence rule with the boundary instant included.
ManifestDue_Inclusive(w, force, t) ==
  w.is_manifest_ /\
    (force \/ w.manifest_last_sync_time_
                + MicrosPerMilli * w.manifest_durable_periodicity_millis_ <= t)

\* The cadence rule without the force of Close.
ManifestDue_NoForce(w, force, t) ==
  w.is_manifest_ /\
    (w.manifest_last_sync_time_
       + MicrosPerMilli * w.manifest_durable_periodicity_millis_ < t)

\* The cadence rule of CopyManifestToS3.
ManifestDue(w, force, t) ==
  w.is_manifest_ /\
    (force \/ w.manifest_last_sync_time_
                + MicrosPerMilli * w.manifest_durable_periodicity_millis_ < t)

CopyManifestToS3(w, loc, store, t, force, putFails) ==
  IF ManifestDue(w, force, t)
  THEN LET r == CopyToS3(loc, store, w.fname_, w.s3_bucket_, w.s3_object_,
                         putFails)
       IN Effect(r.st,
                 IF r.st = OK
                 THEN [w EXCEPT !.manifest_last_sync_time_ = t,
                                !.uploaded_at = t]
                 ELSE w,
                 loc, r.store, r.calls)
  ELSE Effect(OK, w, loc, store, <<>>)

\* A Close that removes the local file of an sst before the upload.
S3Close_DeletesFirst(c, w, loc, store, t, fault) ==
  IF ~w.temp_file_ THEN Effect(w.status_, w, loc, store, <<>>)
  ELSE IF fault = "close" THEN Effect(IOError, w, loc, store, <<>>)
  ELSE LET w1 == [w EXCEPT !.temp_file_ = FALSE]
           gone == IF w1.is_manifest_ \/ c.keep_local_sst_files
                   THEN loc ELSE LocalRemove(loc, w1.fname_)
           r == IF w1.is_manifest_
                THEN CopyManifestToS3(w1, loc, store, t, TRUE, fault = "put")
                ELSE CopyToS3(loc, store, w1.fname_, w1.s3_bucket_,
                              w1.s3_object_, fault = "put")
       IN Effect(r.st, [w1 EXCEPT !.status_ = r.st], gone, r.store, r.calls)

\* A Close that treats a manifest as it treats an sst: uploaded, and the
\* local file removed unless keep_local_sst_files.
S3Close_RemovesManifest(c, w, loc, store, t, fault) ==
  IF ~w.temp_file_ THEN Effect(w.status_, w, loc, store, <<>>)
  ELSE LET r == CopyToS3(loc, store, w.fname_, w.s3_bucket_, w.s3_object_,
                         fault = "put")
       IN Effect(r.st, [w EXCEPT !.temp_file_ = FALSE, !.status_ = r.st],
                 IF r.st = OK /\ ~c.keep_local_sst_files
                 THEN LocalRemove(loc, w.fname_) ELSE loc,
                 r.store, r.calls)

\* fault: "none", or the step of the operation that fails: the local
\* "close", the "size" probe, the local "sync", the "put", the local "delete".
S3Close(c, w, loc, store, t, fault) ==
  IF ~w.temp_file_ THEN Effect(w.status_, w, loc, store, <<>>)
  ELSE IF fault = "close" THEN Effect(IOError, w, loc, store, <<>>)
  ELSE LET w1 == [w EXCEPT !.temp_file_ = FALSE]
       IN IF fault = "size"
          THEN Effect(IOError, [w1 EXCEPT !.status_ = IOError], loc, store, <<>>)
          ELSE IF w1.is_manifest_
          THEN LET m == CopyManifestToS3(w1, loc, store, t, TRUE, fault = "put")
               IN Effect(m.st, [m.wf EXCEPT !.status_ = m.st], loc, m.store,
                         m.calls)
          ELSE LET r == CopyToS3(loc, store, w1.fname_, w1.s3_bucket_,
                                 w1.s3_object_, fault = "put")
                   up == [w1 EXCEPT !.uploaded_at =
                                      IF r.st = OK THEN t ELSE @]
               IN IF r.st # OK
                  THEN Effect(r.st, [up EXCEPT !.status_ = r.st], loc, r.store,
                              r.calls)
                  ELSE IF ~c.keep_local_sst_files
                  THEN IF fault = "delete"
                       THEN Effect(IOError, [up EXCEPT !.status_ = IOError],
                                   loc, r.store, r.calls)
                       ELSE Effect(OK, [up EXCEPT !.status_ = OK],
                                   LocalRemove(loc, w1.fname_), r.store, r.calls)
                  ELSE Effect(OK, [up EXCEPT !.status_ = OK], loc, r.store,
                              r.calls)

\* A Sync that uploads whatever file it syncs.
S3Sync_Uploads(w, loc, store, t, fault) ==
  IF ~w.temp_file_ THEN Effect(w.status_, w, loc, store, <<>>)
  ELSE IF fault = "sync" THEN Effect(IOError, w, loc, store, <<>>)
  ELSE LET r == CopyToS3(loc, store, w.fname_, w.s3_bucket_, w.s3_object_,
                         fault = "put")
       IN Effect(r.st, w, loc, r.store, r.calls)

\* S3WritableFile::Sync
S3Sync(w, loc, store, t, fault) ==
  IF ~w.temp_file_ THEN Effect(w.status_, w, loc, store, <<>>)
  ELSE IF fault = "sync" THEN Effect(IOError, w, loc, store, <<>>)
  ELSE IF w.is_manifest_
  THEN CopyManifestToS3(w, loc, store, t, FALSE, fault = "put")
  ELSE Effect(OK, w, loc, store, <<>>)

(***************************************************************************)
(* AwsEnv::NewWritableFile.  The value is the status, the file handed out  *)
(* and the local file system afterwards.  The constructor of the S3 file   *)
(* asserts that the name is an sst or a manifest.                          *)
(***************************************************************************)
PosixWritableFile(fname) == [kind |-> "posix", fname_ |-> fname,
                             temp_file_ |-> TRUE]
KinesisWritableFile(fname) == [kind |-> "kinesis", fname_ |-> fname,
                               temp_file_ |-> TRUE]

\* A router that sends every manifest to the store, whatever the period.
NewWritableFile_AnyManifest(c, loc, fname) ==
  LET type == GetFileType(fname)
      cloud_file == IF type.manifest
                    THEN destname(c, dirname(fname)) \o <<"/", "MANIFEST">>
                    ELSE destname(c, fname)
  IN IF has_dest_bucket_(c) /\ (type.sst \/ type.identity \/ type.manifest)
     THEN [st |-> OK,
           result |-> S3WritableFile(fname, c.dest_bucket_prefix_, cloud_file, c),
           local |-> LocalWrite(loc, fname, 0),
           asserts |-> IsSstFile(fname) \/ IsManifestFile(fname)]
     ELSE IF type.log /\ ~c.keep_local_log_files
     THEN [st |-> OK, result |-> KinesisWritableFile(fname), local |-> loc,
           asserts |-> TRUE]
     ELSE [st |-> OK, result |-> PosixWritableFile(fname),
           local |-> LocalWrite(loc, fname, 0), asserts |-> TRUE]

NewWritableFile(c, loc, fname) ==
  LET type == GetFileType(fname)
      cloud_file == IF type.manifest
                    THEN destname(c, dirname(fname)) \o <<"/", "MANIFEST">>
                    ELSE destname(c, fname)
  IN IF has_dest_bucket_(c) /\
          (type.sst \/ type.identity \/
             (type.manifest /\ c.manifest_durable_periodicity_millis > 0))
     THEN [st |-> OK,
           result |-> S3WritableFile(fname, c.dest_bucket_prefix_, cloud_file, c),
           local |-> LocalWrite(loc, fname, 0),
           asserts |-> IsSstFile(fname) \/ IsManifestFile(fname)]
     ELSE IF type.log /\ ~c.keep_local_log_files
     THEN [st |-> OK, result |-> KinesisWritableFile(fname), local |-> loc,
           asserts |-> TRUE]
     ELSE [st |-> OK, result |-> PosixWritableFile(fname),
           local |-> LocalWrite(loc, fname, 0), asserts |-> TRUE]

(***************************************************************************)
(* SpecWrite: a writable file is created through the router, appended to,  *)
(* synced, closed and destroyed, while the clock advances.  A behaviour    *)
(* follows one file from NewWritableFile to its destruction.               *)
(***************************************************************************)
WriteNames == {SstName, ManifestName, CurrentName}

WriteBindings ==
  {b \in Bindings : ~has_src_bucket_(b) \/ has_two_unique_buckets_(b)}

SyncFaults == {"none", "sync", "put"}
CloseFaults == {"none", "close", "size", "put", "delete"}

\* The steps by which the clock advances: one period, and just more.
Steps == {MicrosPerMilli, MicrosPerMilli + 1}

Gone == [kind |-> "gone"]

WriteInit ==
  /\ cfg \in {Join(b, Options(k, TRUE, p)) :
                b \in WriteBindings, k \in BOOLEAN, p \in 0..MaxPeriod}
  /\ local = <<>>
  /\ s3 = <<>>
  /\ now = 0
  /\ wf = Null
  /\ last = Idle
  /\ DelInit

\* The clock advances between two operations.
Tick(d) ==
  /\ now + d <= MaxNow
  /\ now' = now + d
  /\ last' = Idle
  /\ UNCHANGED <<cfg, local, s3, wf>>
  /\ UNCHANGED delVars

DoNewWritableFile(fname) ==
  LET r == NewWritableFile(cfg, local, fname)
  IN /\ wf = Null
     /\ wf' = r.result
     /\ local' = r.local
     /\ last' = [op |-> "NewWritableFile", fname |-> fname, st |-> r.st,
                 asserts |-> r.asserts, calls |-> <<>>]
     /\ UNCHANGED <<cfg, s3, now>>
     /\ UNCHANGED delVars

IsFile(w) == w.kind \in {"s3", "posix", "kinesis"}

\* Append goes to the local handle.
DoAppend(n) ==
  /\ IsFile(wf)
  /\ wf.kind \in {"s3", "posix"}
  /\ wf.temp_file_
  /\ LocalSize(local, wf.fname_) + n <= MaxSize
  /\ local' = LocalWrite(local, wf.fname_, LocalSize(local, wf.fname_) + n)
  /\ last' = [op |-> "Append", fname |-> wf.fname_, st |-> OK, calls |-> <<>>]
  /\ UNCHANGED <<cfg, s3, now, wf>>
  /\ UNCHANGED delVars

\* What the last record keeps of the state an operation started in.
Before(w, loc) ==
  [size |-> LocalSize(loc, w.fname_),
   open |-> w.temp_file_,
   last_sync |-> IF w.kind = "s3" THEN w.manifest_last_sync_time_ ELSE 0]

\* The operation leaves e; the caller is left with the handle w2.
Apply(op, fault, e, w2) ==
  /\ wf' = w2
  /\ local' = e.local
  /\ s3' = e.store
  /\ last' = [op |-> op, fname |-> wf.fname_, fault |-> fault, st |-> e.st,
              calls |-> e.calls, pre |-> Before(wf, local), file |-> e.wf]
  /\ UNCHANGED <<cfg, now>>
  /\ UNCHANGED delVars

DoSync(fault) ==
  /\ IsFile(wf)
  /\ LET e == IF wf.kind = "s3" THEN S3Sync(wf, local, s3, now, fault)
              ELSE Effect(OK, wf, local, s3, <<>>)
     IN Apply("Sync", fault, e, e.wf)

DoClose(fault) ==
  /\ IsFile(wf)
  /\ LET e == IF wf.kind = "s3" THEN S3Close(cfg, wf, local, s3, now, fault)
              ELSE Effect(OK, [wf EXCEPT !.temp_file_ = FALSE], local, s3, <<>>)
     IN Apply("Close", fault, e, e.wf)

\* ~S3WritableFile: closes the file if Close has not, then the file is gone.
DoDestroy(fault) ==
  /\ IsFile(wf)
  /\ LET e == IF wf.kind = "s3" /\ wf.temp_file_
              THEN S3Close(cfg, wf, local, s3, now, fault)
              ELSE Effect(OK, wf, local, s3, <<>>)
     IN Apply("Destroy", fault, e, Gone)

WriteNext ==
  \/ \E d \in Steps : Tick(d)
  \/ \E fname \in WriteNames : DoNewWritableFile(fname)
  \/ \E n \in 1..MaxSize : DoAppend(n)
  \/ \E fault \in SyncFaults : DoSync(fault)
  \/ \E fault \in CloseFaults : DoClose(fault)
  \/ \E fault \in CloseFaults : DoDestroy(fault)

SpecWrite == WriteInit /\ [][WriteNext]_vars

(***************************************************************************)
(* Claims on the write path (checked under SpecWrite).                     *)
(***************************************************************************)
\* The last operation was a Close, answered OK, of an sst created through
\* NewWritableFile in an environment with a dest bucket.
SstClosed ==
  /\ last.op = "Close"
  /\ IsSstFile(last.fname)
  /\ has_dest_bucket_(cfg)
  /\ last.st = OK

\* C2: after NewWritableFile on an sst name with a dest bucket, an append
\* of at least one byte and a Close that returns OK, the dest bucket holds
\* an object at dest.object_prefix + "/" + basename(name); the local file is
\* absent when keep_local_sst_files is false and present when it is true.
C2_SstPlacement ==
  SstClosed =>
    /\ Stored(s3, <<"rockset.">> \o cfg.dest_bucket_prefix_,
              cfg.dest_object_prefix_ \o <<"/">> \o basename(last.fname))
    /\ LocalExists(local, last.fname) <=> cfg.keep_local_sst_files

\* C2 witness: the Close that uploaded the appended bytes and removed the
\* local file.
C2_Witness ==
  /\ SstClosed
  /\ last.pre.open
  /\ last.pre.size > 0
  /\ ~cfg.keep_local_sst_files
  /\ Len(last.calls) = 1
  /\ ~LocalExists(local, last.fname)

\* The last operation acted on an open manifest file routed to the store
\* (dest bucket, periodicity above zero).
OnOpenManifest(ops) ==
  /\ last.op \in ops
  /\ IsManifestFile(last.fname)
  /\ last.file.kind = "s3"
  /\ last.pre.open

\* The requests of the last operation are one PUT of the manifest object.
OnePut ==
  last.calls = <<Request("Put", <<"rockset.">> \o cfg.dest_bucket_prefix_,
                         last.file.s3_object_)>>

\* The cadence inequality at the instant of the last operation.
Elapsed ==
  last.pre.last_sync + 1000 * cfg.manifest_durable_periodicity_millis < now

\* C3 (as stated): a Sync of a manifest file issues exactly one PUT iff
\* last_upload_us + 1000 * P < now_us; a Sync within P of the last upload
\* issues no PUT and returns OK.  (Only Syncs in which no step was made to
\* fail are looked at.)
C3_SyncCadence_AsStated ==
  (OnOpenManifest({"Sync"}) /\ last.fault = "none") =>
    /\ OnePut <=> Elapsed
    /\ ~Elapsed => (last.calls = <<>> /\ last.st = OK)

\* C3 (amended): the same for a manifest whose local file is not empty;
\* last_upload_us is the time of the last upload that succeeded and moves
\* to now only when the PUT succeeds.  A Sync that is due on an empty
\* manifest issues no PUT and returns IOError.
C3_SyncCadence ==
  /\ (OnOpenManifest({"Sync"}) /\ last.fault \in {"none", "put"}) =>
       /\ last.calls # <<>> <=> (Elapsed /\ last.pre.size > 0)
       /\ last.calls # <<>> => OnePut
       /\ ~Elapsed => last.st = OK
       /\ (Elapsed /\ last.pre.size = 0) => last.st = IOError
       /\ last.file.manifest_last_sync_time_ =
            IF OnePut /\ last.fault = "none" THEN now ELSE last.pre.last_sync
  /\ (wf # Null /\ wf # Gone /\ wf.kind = "s3" /\ wf.is_manifest_) =>
       wf.manifest_last_sync_time_ = wf.uploaded_at

\* C3 witness: a Sync later than P after an earlier upload uploaded again
\* and moved the time of the last upload.
C3_Witness ==
  /\ OnOpenManifest({"Sync"})
  /\ last.pre.last_sync > 0
  /\ Elapsed
  /\ OnePut
  /\ last.st = OK
  /\ last.file.manifest_last_sync_time_ = now

\* The first Close of a manifest file, by Close or by the destructor.
FirstManifestClose == OnOpenManifest({"Close", "Destroy"})

\* C4 (as stated): the first Close of a manifest file always issues a PUT
\* of the manifest to the dest bucket, whatever the time since the last
\* upload.  (Only Closes in which no step was made to fail are looked at.)
C4_CloseForcesPut_AsStated ==
  (FirstManifestClose /\ last.fault = "none") => OnePut

\* C4 (amended): the first Close of a manifest file whose local file is not
\* empty issues one PUT of the manifest to the dest bucket, whatever the
\* time since the last upload; on an empty manifest it issues none and
\* returns IOError.
C4_CloseForcesPut ==
  (FirstManifestClose /\ last.fault \notin {"close", "size"}) =>
    IF last.pre.size > 0
    THEN /\ OnePut
         /\ last.fault = "none" =>
              /\ last.st = OK
              /\ last.file.manifest_last_sync_time_ = now
              /\ Stored(s3, last.file.s3_bucket_, last.file.s3_object_)
    ELSE last.calls = <<>> /\ last.st = IOError

\* C4 witness: a Close within P of the last upload issued the PUT.
C4_Witness ==
  /\ FirstManifestClose
  /\ last.op = "Close"
  /\ last.pre.last_sync > 0
  /\ ~Elapsed
  /\ OnePut
  /\ last.st = OK

\* C8 (upload half): a Close or Sync that reaches CopyToS3 with an empty
\* local file returns IOError and issues no PUT.
C8_EmptyUpload ==
  (/\ last.op \in {"Close", "Sync", "Destroy"}
   /\ last.file.kind = "s3"
   /\ last.pre.open
   /\ last.pre.size = 0
   /\ last.fault \in {"none", "put", "delete"}
   /\ (last.op = "Sync" => (IsManifestFile(last.fname) /\ Elapsed))) =>
    last.calls = <<>> /\ last.st = IOError

(***************************************************************************)
(* Deferred deletion: DeleteFile producers, the deletion thread started by *)
(* the constructor, and the destructor.  file_deletion_lock_ is lock; the  *)
(* condition variable is the notified flag of the waiting worker.  A       *)
(* section of code that runs with the lock held and touches only what the  *)
(* lock guards is one step.                                                *)
(***************************************************************************)
FileDeletionDelay == 2
MaxTime == 3
MaxEnq == 2

Producers == {"p1", "p2"}

Sst2Name == <<"dbdir", "/", "000124", ".sst">>
DelNames == {SstName, Sst2Name}

NoEntry == [id |-> 0, time |-> 0, fname |-> <<>>]

\* AwsEnv::DeletePathInS3
DeletePathInS3(store, bucket_prefix, fname, fails) ==
  LET bucket == GetBucket(bucket_prefix)
      calls == <<Request("Delete", bucket, fname)>>
  IN IF fails THEN [st |-> IOError, store |-> store, calls |-> calls]
     ELSE IF ~Stored(store, bucket, fname)
     THEN [st |-> NotFound, store |-> store, calls |-> calls]
     ELSE [st |-> OK, store |-> StoreDelete(store, bucket, fname),
           calls |-> calls]

\* The branch DeleteFile takes for a name.
DeleteFileRoute(c, fname) ==
  LET type == GetFileType(fname)
  IN IF has_dest_bucket_(c) /\ (type.sst \/ type.manifest \/ type.identity)
     THEN "dest"
     ELSE IF type.log /\ ~c.keep_local_log_files THEN "kinesis"
     ELSE "local"

\* base_env_->DeleteFile
PosixDeleteFile(loc, fname) ==
  IF LocalExists(loc, fname)
  THEN [st |-> OK, local |-> LocalRemove(loc, fname)]
  ELSE [st |-> IOError, local |-> loc]

\* A notify_one that wakes nobody.
NotifyOne_Lost(w) == w

\* notify_one wakes the thread that waits on the condition variable; a
\* thread that is not waiting takes no notice.
NotifyOne(w) ==
  IF w.pc \in {"waiting", "timed"} THEN [w EXCEPT !.notified = TRUE] ELSE w

\* A deadline without the delay.
Deadline_NoDelay(entry) == entry.time

\* The instant wait_until waits for.
Deadline(entry) == entry.time + FileDeletionDelay

\* A wait_until that reports no shutdown when it times out.
WaitUntilPred_TimeoutFalse(run, timedout) == IF timedout THEN FALSE ELSE ~run

\* What wait_until returns: its predicate, evaluated with the lock held.
WaitUntilPred(run, timedout) == ~run

\* A worker that gives up after a DELETE that failed.
AfterDelete_StopOnError(st) == IF st \in {OK, NotFound} THEN "lock" ELSE "exit"

\* After DeletePathInS3 the status is logged and the loop goes on.
AfterDelete(st) == "lock"

\* A first wait that takes the newest entry of the queue.
WaitForWork_Newest(queue, run) ==
  IF ~run
  THEN [worker |-> [pc |-> "exit", held |-> NoEntry, notified |-> FALSE],
        queue |-> queue]
  ELSE IF queue # <<>>
  THEN [worker |-> [pc |-> "timed", held |-> queue[Len(queue)],
                    notified |-> FALSE],
        queue |-> SubSeq(queue, 1, Len(queue) - 1)]
  ELSE [worker |-> [pc |-> "waiting", held |-> NoEntry, notified |-> FALSE],
        queue |-> queue]

\* The worker holds the lock and evaluates the first wait: shutdown ends
\* the thread; an entry is popped and its timed wait begins; otherwise the
\* thread blocks.  Each outcome releases the lock.
WaitForWork(queue, run) ==
  IF ~run
  THEN [worker |-> [pc |-> "exit", held |-> NoEntry, notified |-> FALSE],
        queue |-> queue]
  ELSE IF queue # <<>>
  THEN [worker |-> [pc |-> "timed", held |-> Head(queue), notified |-> FALSE],
        queue |-> Tail(queue)]
  ELSE [worker |-> [pc |-> "waiting", held |-> NoEntry, notified |-> FALSE],
        queue |-> queue]

DelBindings == {b \in Bindings : ~has_src_bucket_(b)}

\* The environment just constructed, over the given bindings: the names
\* are there locally and in every bucket, the deletion thread is started.
DelInitOver(bindings) ==
  /\ cfg \in {Join(b, Options(TRUE, TRUE, 0)) : b \in bindings}
  /\ local = [n \in DelNames |-> 1]
  /\ s3 = [x \in Slots(cfg, DelNames) |-> Object(1, NoMetadata)]
  /\ now = 0
  /\ wf = Null
  /\ last = Idle
  /\ files_to_delete = <<>>
  /\ running = TRUE
  /\ lock = NoThread
  /\ worker = [pc |-> "lock", held |-> NoEntry, notified |-> FALSE]
  /\ threads = [producers |-> [p \in Producers |-> [pc |-> "idle", id |-> 0]],
                dtor |-> "no"]
  /\ hist = <<>>

DelShutInit == DelInitOver(DelBindings)

DelTick ==
  /\ now < MaxTime
  /\ now' = now + 1
  /\ UNCHANGED <<cfg, local, s3, wf, last>>
  /\ UNCHANGED delVars

\* DeleteFile, dest branch, first half: push and notify under the lock.
DeleteFileEnqueue(p, fname) ==
  /\ threads.dtor = "no"
  /\ threads.producers[p].pc = "idle"
  /\ DeleteFileRoute(cfg, fname) = "dest"
  /\ Len(hist) < MaxEnq
  /\ now + FileDeletionDelay <= MaxTime
  /\ lock = NoThread
  /\ files_to_delete' = Append(files_to_delete,
                               [id |-> Len(hist) + 1, time |-> now,
                                fname |-> fname])
  /\ hist' = Append(hist, [fname |-> fname, time |-> now,
                           had |-> InDest(cfg, s3, fname),
                           returned |-> FALSE, ret |-> OK,
                           issued |-> FALSE, at |-> 0, st |-> OK,
                           calls |-> <<>>])
  /\ worker' = NotifyOne(worker)
  /\ threads' = [threads EXCEPT !.producers[p] =
                                  [pc |-> "local", id |-> Len(hist) + 1]]
  /\ UNCHANGED <<cfg, local, s3, now, wf, last, running, lock>>

\* DeleteFile, dest branch, second half: the local file is deleted.
DeleteFileLocal(p) ==
  /\ threads.producers[p].pc = "local"
  /\ LET i == threads.producers[p].id
         r == PosixDeleteFile(local, hist[i].fname)
     IN /\ local' = r.local
        /\ hist' = [hist EXCEPT ![i] =
                      [@ EXCEPT !.returned = TRUE, !.ret = r.st]]
  /\ threads' = [threads EXCEPT !.producers[p] = [pc |-> "idle", id |-> 0]]
  /\ UNCHANGED <<cfg, s3, now, wf, last, files_to_delete, running, lock,
                 worker>>

\* DeleteFile on a name that is not routed to the dest bucket.
DeleteFileDirect(p, fname) ==
  /\ threads.dtor = "no"
  /\ threads.producers[p].pc = "idle"
  /\ DeleteFileRoute(cfg, fname) # "dest"
  /\ LET r == IF DeleteFileRoute(cfg, fname) = "kinesis"
              THEN [st |-> OK, local |-> local]
              ELSE PosixDeleteFile(local, fname)
     IN /\ local' = r.local
        /\ last' = [op |-> "DeleteFile", fname |-> fname, st |-> r.st,
                    route |-> DeleteFileRoute(cfg, fname),
                    pre |-> [local |-> LocalExists(local, fname)]]
  /\ UNCHANGED <<cfg, s3, now, wf>>
  /\ UNCHANGED delVars

\* The top of the loop: the lock is taken and the first wait evaluated.
WorkerLock ==
  /\ worker.pc = "lock"
  /\ lock = NoThread
  /\ LET r == WaitForWork(files_to_delete, running)
     IN worker' = r.worker /\ files_to_delete' = r.queue
  /\ UNCHANGED <<cfg, local, s3, now, wf, last, running, lock, threads, hist>>

\* The first wait is notified: the lock is taken again and the wait
\* evaluated again.
WorkerWake ==
  /\ worker.pc = "waiting"
  /\ worker.notified
  /\ lock = NoThread
  /\ LET r == WaitForWork(files_to_delete, running)
     IN worker' = r.worker /\ files_to_delete' = r.queue
  /\ UNCHANGED <<cfg, local, s3, now, wf, last, running, lock, threads, hist>>

\* The timed wait ends, by its deadline or by a notification: the lock is
\* taken again.  At the deadline the thread goes on to the DELETE with the
\* lock held unless the predicate reports the shutdown.
WorkerTimedWake ==
  /\ worker.pc = "timed"
  /\ lock = NoThread
  /\ LET timedout == now >= Deadline(worker.held)
     IN /\ timedout \/ worker.notified
        /\ IF WaitUntilPred(running, timedout)
           THEN /\ worker' = [pc |-> "exit", held |-> worker.held,
                              notified |-> FALSE]
                /\ lock' = lock
           ELSE IF timedout
           THEN /\ worker' = [worker EXCEPT !.pc = "delete",
                                            !.notified = FALSE]
                /\ lock' = "worker"
           ELSE /\ worker' = [worker EXCEPT !.notified = FALSE]
                /\ lock' = lock
  /\ UNCHANGED <<cfg, local, s3, now, wf, last, files_to_delete, running,
                 threads, hist>>

\* DeletePathInS3 of the held entry; the lock is released at the end of
\* the iteration.
WorkerDelete(fails) ==
  /\ worker.pc = "delete"
  /\ LET e == worker.held
         r == DeletePathInS3(s3, cfg.dest_bucket_prefix_,
                             destname(cfg, e.fname), fails)
     IN /\ s3' = r.store
        /\ hist' = [hist EXCEPT ![e.id] =
                      [@ EXCEPT !.issued = TRUE, !.at = now, !.st = r.st,
                                !.calls = r.calls]]
        /\ worker' = [pc |-> AfterDelete(r.st), held |-> NoEntry,
                      notified |-> FALSE]
  /\ lock' = NoThread
  /\ UNCHANGED <<cfg, local, now, wf, last, files_to_delete, running, threads>>

\* ~AwsEnv: running_ is cleared and the worker notified, under the lock.
DtorShutdown ==
  /\ threads.dtor = "no"
  /\ \A p \in Producers : threads.producers[p].pc = "idle"
  /\ lock = NoThread
  /\ running' = FALSE
  /\ worker' = NotifyOne(worker)
  /\ threads' = [threads EXCEPT !.dtor = "set"]
  /\ UNCHANGED <<cfg, local, s3, now, wf, last, files_to_delete, lock, hist>>

\* ~AwsEnv: file_deletion_thread_.join() returns once the thread has ended.
DtorJoin ==
  /\ threads.dtor = "set"
  /\ worker.pc = "exit"
  /\ threads' = [threads EXCEPT !.dtor = "joined"]
  /\ UNCHANGED <<cfg, local, s3, now, wf, last, files_to_delete, running,
                 lock, worker, hist>>

DelNext ==
  \/ DelTick
  \/ \E p \in Producers, fname \in DelNames : DeleteFileEnqueue(p, fname)
  \/ \E p \in Producers : DeleteFileLocal(p)
  \/ \E p \in Producers, fname \in DelNames : DeleteFileDirect(p, fname)
  \/ WorkerLock
  \/ WorkerWake
  \/ WorkerTimedWake
  \/ \E fails \in BOOLEAN : WorkerDelete(fails)
  \/ DtorShutdown
  \/ DtorJoin

SpecDel == DelShutInit /\ [][DelNext]_vars

\* The deletion thread and the clock keep running.
FairDel ==
  /\ SpecDel
  /\ WF_vars(DelTick)
  /\ WF_vars(WorkerLock)
  /\ WF_vars(WorkerWake)
  /\ WF_vars(WorkerTimedWake)
  /\ WF_vars(\E fails \in BOOLEAN : WorkerDelete(fails))

(***************************************************************************)
(* Claims on deferred deletion (checked under SpecDel and FairDel).        *)
(* hist[i] is the i-th entry enqueued: its name, the instant it was        *)
(* enqueued, whether dest held the object then, what DeleteFile returned,   *)
(* and the DELETE issued for it, if any.                                   *)
(***************************************************************************)
\* No earlier entry names the file of entry i.
FirstOfName(i) == \A j \in 1..(i - 1) : hist[j].fname # hist[i].fname

\* C5: after DeleteFile on an sst with a dest bucket configured the local
\* file is gone when DeleteFile returns; the deletion worker issues no
\* DELETE for the entry before enqueue instant + file_deletion_delay, and
\* inside that window the dest object is still there to be read.
C5_DeferredDelete ==
  /\ \A i \in DOMAIN hist :
       /\ hist[i].returned => ~LocalExists(local, hist[i].fname)
       /\ hist[i].issued => hist[i].at >= hist[i].time + FileDeletionDelay
       /\ (hist[i].had /\ FirstOfName(i)
             /\ now < hist[i].time + FileDeletionDelay) =>
            /\ ~hist[i].issued
            /\ Stored(s3, <<"rockset.">> \o cfg.dest_bucket_prefix_,
                      cfg.dest_object_prefix_ \o <<"/">> \o basename(hist[i].fname))

\* C5 witness: the local file went at once, the dest object was deleted by
\* the worker when the delay had passed.
C5_Witness ==
  \E i \in DOMAIN hist :
    /\ hist[i].had
    /\ hist[i].returned
    /\ hist[i].ret = OK
    /\ hist[i].issued
    /\ hist[i].st = OK
    /\ hist[i].at >= hist[i].time + FileDeletionDelay
    /\ ~LocalExists(local, hist[i].fname)
    /\ ~InDest(cfg, s3, hist[i].fname)

\* The DELETE of entry i has been issued, after its delay, for
\* destname(name) in the dest bucket.
Deleted(i) ==
  /\ hist[i].issued
  /\ hist[i].at >= hist[i].time + FileDeletionDelay
  /\ hist[i].calls =
       <<Request("Delete", <<"rockset.">> \o cfg.dest_bucket_prefix_,
                 cfg.dest_object_prefix_ \o <<"/">> \o basename(hist[i].fname))>>

\* C6: as long as the environment is not shut down, every deletion
\* enqueued by DeleteFile leads to a DELETE of destname(name) in the dest
\* bucket once its delay has passed, whatever the interleaving with the
\* producers and whatever the DELETE of an earlier entry returned.
C6_EventuallyDeleted ==
  \A i \in 1..MaxEnq :
    (Len(hist) >= i) ~> (~running \/ (Len(hist) >= i /\ Deleted(i)))

\* C6 witness: two entries were enqueued; the DELETE of the first failed
\* and the DELETE of the second was issued all the same.
C6_Witness ==
  /\ running
  /\ Len(hist) >= 2
  /\ Deleted(1)
  /\ hist[1].st = IOError
  /\ Deleted(2)

\* C7: once the destructor has set running to false the worker starts no
\* further DELETE: the entries in the queue and the entry whose delay is
\* being waited on are never deleted from dest.
C7_ShutdownCancels ==
  [][~running => (s3' = s3 /\ hist' = hist)]_vars

\* C7 witness: the destructor has joined the worker, which ended holding
\* an entry whose delay had passed and leaving another in the queue; both
\* objects are still in dest.
C7_Witness ==
  /\ ~running
  /\ threads.dtor = "joined"
  /\ worker.pc = "exit"
  /\ worker.held # NoEntry
  /\ ~hist[worker.held.id].issued
  /\ now >= worker.held.time + FileDeletionDelay
  /\ InDest(cfg, s3, worker.held.fname)
  /\ files_to_delete # <<>>
  /\ InDest(cfg, s3, Head(files_to_delete).fname)
  /\ ~hist[Head(files_to_delete).id].issued

(***************************************************************************)
(* The dbid registry: SaveDbid, GetPathForDbid, GetDbidList, DeleteDbid,   *)
(* and the listing GetChildrenFromS3 they rest on.                         *)
(***************************************************************************)
dbid_registry_ == <<"/", ".rockset", "/", "dbid", "/">>

MaxKeys == 50

\* The tokens that occur in keys, in the order of their first characters.
Alphabet ==
  <<"-000001", ".dbtmp", ".log", ".rockset", ".sst", ".tmp", "/", "000007",
    "000123", "000124", "CURRENT", "IDENTITY", "MANIFEST", "X7", "Y8", "db1",
    "db2", "dbdir", "dbid">>

Rank(tok) == CHOOSE i \in DOMAIN Alphabet : Alphabet[i] = tok

\* The alphabetical order of keys.
RECURSIVE KeyLess(_, _)
KeyLess(a, b) ==
  IF b = <<>> THEN FALSE
  ELSE IF a = <<>> THEN TRUE
  ELSE IF Head(a) = Head(b) THEN KeyLess(Tail(a), Tail(b))
  ELSE Rank(Head(a)) < Rank(Head(b))

\* The keys of a set in alphabetical order.
RECURSIVE SortKeys(_)
SortKeys(keys) ==
  IF keys = {} THEN <<>>
  ELSE LET k == CHOOSE x \in keys : \A y \in keys \ {x} : KeyLess(x, y)
       IN <<k>> \o SortKeys(keys \ {k})

\* ListObjects: at most max_keys keys of the bucket that start with the
\* prefix and come after the marker, in alphabetical order.
ListObjects(store, bucket, prefix, marker, max_keys) ==
  LET keys == {x[2] : x \in {y \in DOMAIN store :
                               /\ y[1] = bucket
                               /\ IsPrefix(prefix, y[2])
                               /\ (marker = <<>> \/ KeyLess(marker, y[2]))}}
      sorted == SortKeys(keys)
  IN [contents |-> SubSeq(sorted, 1, IF Len(sorted) < max_keys
                                     THEN Len(sorted) ELSE max_keys),
      is_truncated |-> Len(sorted) > max_keys]

\* A next marker taken from the head of the page.
Marker_First(res, next_marker) ==
  IF next_marker = <<>> THEN res.contents[1] ELSE next_marker

\* The marker of the next request: the NextMarker of the response, or the
\* key of the last object when the response has none.
Marker(res, next_marker) ==
  IF next_marker = <<>> THEN res.contents[Len(res.contents)] ELSE next_marker

\* The loop of GetChildrenFromS3 from a marker on.  The request names no
\* delimiter: the response has no NextMarker.
RECURSIVE ListLoop(_, _, _, _, _)
ListLoop(store, bucket, path, marker, result) ==
  LET res == ListObjects(store, bucket, path, marker, MaxKeys)
      all == result \o res.contents
  IN IF ~res.is_truncated THEN all
     ELSE ListLoop(store, bucket, path, Marker(res, <<>>), all)

\* AwsEnv::GetChildrenFromS3: the keys themselves are handed back.
GetChildrenFromS3(store, path, bucket_prefix, fails) ==
  IF fails THEN [st |-> IOError, result |-> <<>>]
  ELSE [st |-> OK,
        result |-> ListLoop(store, GetBucket(bucket_prefix), path, <<>>, <<>>)]

\* A SaveDbid that stores the object without its metadata.
SaveDbid_NoMetadata(c, store, dbid, dir, fails) ==
  IF fails THEN [st |-> IOError, store |-> store]
  ELSE [st |-> OK,
        store |-> StorePut(store, GetBucket(c.dest_bucket_prefix_),
                           dbid_registry_ \o dbid, Object(0, NoMetadata))]

\* AwsEnv::SaveDbid
SaveDbid(c, store, dbid, dir, fails) ==
  IF fails THEN [st |-> IOError, store |-> store]
  ELSE [st |-> OK,
        store |-> StorePut(store, GetBucket(c.dest_bucket_prefix_),
                           dbid_registry_ \o dbid,
                           Object(0, [dirname |-> dir]))]

\* AwsEnv::GetPathForDbid
GetPathForDbid(store, bucket_prefix, dbid, fails) ==
  LET outcome == HeadObject(store, GetBucket(bucket_prefix),
                            dbid_registry_ \o dbid, fails)
  IN IF ~outcome.ok
     THEN IF IsNoSuch(outcome.err) \/ outcome.err = "UNKNOWN"
          THEN [st |-> NotFound, dirname |-> <<>>]
          ELSE [st |-> IOError, dirname |-> <<>>]
     ELSE IF "dirname" \in DOMAIN outcome.obj.metadata
     THEN [st |-> OK, dirname |-> outcome.obj.metadata.dirname]
     ELSE [st |-> NotFound, dirname |-> <<>>]

\* The loop of GetDbidList over the listed names.
RECURSIVE DbidLoop(_, _, _, _, _)
DbidLoop(store, bucket_prefix, dbid_list, dblist, headFails) ==
  IF dbid_list = <<>> THEN [st |-> OK, dblist |-> dblist]
  ELSE LET dbid == Head(dbid_list)
           r == GetPathForDbid(store, bucket_prefix, dbid, headFails)
       IN IF r.st # OK THEN [st |-> r.st, dblist |-> dblist]
          ELSE DbidLoop(store, bucket_prefix, Tail(dbid_list),
                        [x \in (DOMAIN dblist) \cup {dbid} |->
                           IF x = dbid THEN r.dirname ELSE dblist[x]],
                        headFails)

\* AwsEnv::GetDbidList
GetDbidList(store, bucket_prefix, listFails, headFails) ==
  LET l == GetChildrenFromS3(store, dbid_registry_, bucket_prefix, listFails)
  IN IF l.st # OK THEN [st |-> l.st, dblist |-> <<>>]
     ELSE DbidLoop(store, bucket_prefix, l.result, <<>>, headFails)

\* AwsEnv::DeleteDbid
DeleteDbid(store, bucket_prefix, dbid, fails) ==
  DeletePathInS3(store, bucket_prefix, dbid_registry_ \o dbid, fails)

(***************************************************************************)
(* SpecDbid: the registry operations in any order.  hist.map is the        *)
(* registry a caller expects: the directory last saved for each dbid that  *)
(* was saved and not deleted since; hist.deleted tells whether a delete    *)
(* has succeeded.                                                          *)
(***************************************************************************)
DbIds == {<<"X7">>, <<"Y8">>}
Dirs == {<<"/paths/x">>, <<"/paths/y">>}

DbidBindings == {b \in WriteBindings : has_dest_bucket_(b)}

DbidInit ==
  /\ cfg \in {Join(b, Options(TRUE, TRUE, 0)) : b \in DbidBindings}
  /\ local = <<>>
  /\ s3 = <<>>
  /\ now = 0
  /\ wf = Null
  /\ last = Idle
  /\ files_to_delete = <<>>
  /\ running = TRUE
  /\ lock = NoThread
  /\ worker = [pc |-> "off"]
  /\ threads = <<>>
  /\ hist = [map |-> <<>>, deleted |-> FALSE]

DoSaveDbid(dbid, dir, fails) ==
  LET r == SaveDbid(cfg, s3, dbid, dir, fails)
  IN /\ s3' = r.store
     /\ hist' = IF r.st = OK
                THEN [hist EXCEPT !.map =
                        [x \in (DOMAIN hist.map) \cup {dbid} |->
                           IF x = dbid THEN dir ELSE hist.map[x]]]
                ELSE hist
     /\ last' = [op |-> "SaveDbid", dbid |-> dbid, dirname |-> dir,
                 fails |-> fails, st |-> r.st]
     /\ UNCHANGED <<cfg, local, now, wf, files_to_delete, running, lock,
                    worker, threads>>

DoGetPathForDbid(dbid, fails) ==
  LET r == GetPathForDbid(s3, cfg.dest_bucket_prefix_, dbid, fails)
  IN /\ last' = [op |-> "GetPathForDbid", dbid |-> dbid, fails |-> fails,
                 st |-> r.st, dirname |-> r.dirname]
     /\ UNCHANGED <<cfg, local, s3, now, wf, files_to_delete, running, lock,
                    worker, threads, hist>>

DoDeleteDbid(dbid, fails) ==
  LET r == DeleteDbid(s3, cfg.dest_bucket_prefix_, dbid, fails)
  IN /\ s3' = r.store
     /\ hist' = IF r.st = OK
                THEN [map |-> [x \in (DOMAIN hist.map) \ {dbid} |-> hist.map[x]],
                      deleted |-> TRUE]
                ELSE hist
     /\ last' = [op |-> "DeleteDbid", dbid |-> dbid, fails |-> fails,
                 st |-> r.st]
     /\ UNCHANGED <<cfg, local, now, wf, files_to_delete, running, lock,
                    worker, threads>>

DoGetDbidList(listFails, headFails) ==
  LET r == GetDbidList(s3, cfg.dest_bucket_prefix_, listFails, headFails)
  IN /\ last' = [op |-> "GetDbidList", fails |-> listFails \/ headFails,
                 st |-> r.st, dblist |-> r.dblist]
     /\ UNCHANGED <<cfg, local, s3, now, wf, files_to_delete, running, lock,
                    worker, threads, hist>>

DbidNext ==
  \/ \E dbid \in DbIds, dir \in Dirs, fails \in BOOLEAN :
       DoSaveDbid(dbid, dir, fails)
  \/ \E dbid \in DbIds, fails \in BOOLEAN : DoGetPathForDbid(dbid, fails)
  \/ \E dbid \in DbIds, fails \in BOOLEAN : DoDeleteDbid(dbid, fails)
  \/ \E listFails \in BOOLEAN, headFails \in BOOLEAN :
       DoGetDbidList(listFails, headFails)

SpecDbid == DbidInit /\ [][DbidNext]_vars

(***************************************************************************)
(* Claims on the dbid registry (checked under SpecDbid).                   *)
(***************************************************************************)
\* C9: SaveDbid(d, p) followed by GetPathForDbid(dest, d) returns OK with
\* p, the last saved p when d was saved several times; after
\* DeleteDbid(dest, d) it returns NotFound; saving or deleting one dbid
\* leaves the answers for the others as they were.
C9_DbidRoundTrip ==
  (last.op = "GetPathForDbid" /\ ~last.fails) =>
    IF last.dbid \in DOMAIN hist.map
    THEN last.st = OK /\ last.dirname = hist.map[last.dbid]
    ELSE last.st = NotFound

\* C9 witness: a dbid resolves to its directory after another dbid was
\* saved and deleted again.
C9_Witness ==
  /\ last.op = "GetPathForDbid"
  /\ ~last.fails
  /\ hist.deleted
  /\ DOMAIN hist.map = {last.dbid}
  /\ last.st = OK
  /\ last.dirname = hist.map[last.dbid]

\* C10: after SaveDbid(d, p) for each dbid of a set, and no delete,
\* GetDbidList on the dest bucket returns OK with exactly the map that
\* sends each saved dbid d, as passed to SaveDbid, to its directory p.
C10_ListIsSavedMap ==
  (last.op = "GetDbidList" /\ ~last.fails /\ ~hist.deleted) =>
    (last.st = OK /\ last.dblist = hist.map)

(***************************************************************************)
(* Renames and directories.  A local directory is an entry of the local    *)
(* file system whose value is DirEntry.  The asserts field of an outcome   *)
(* is FALSE when the call runs into an assert that fails (a build with     *)
(* asserts stops there; the value is what a build without them returns).   *)
(***************************************************************************)
DirEntry == -1

LogName == <<"dbdir", "/", "000007", ".log">>
IdentityName == <<"dbdir", "/", "IDENTITY">>
IdentityTmp == <<"dbdir", "/", "IDENTITY", ".dbtmp">>
DirName == <<"dbdir">>

\* The dbid read from an identity file: the text of the file, trimmed.
ReadDbid(loc, localfile) ==
  IF LocalSize(loc, localfile) > 0 THEN <<"X7">> ELSE <<>>

\* base_env_->RenameFile
PosixRenameFile(loc, src, target) ==
  IF LocalExists(loc, src)
  THEN [st |-> OK, local |-> LocalRename(loc, src, target)]
  ELSE [st |-> IOError, local |-> loc]

\* AwsEnv::SaveIdentitytoS3.  fault: "none", or the step that fails: the
\* "read" of the local file, the "put" of the object, the "dbid" PUT.
SaveIdentitytoS3(c, loc, store, localfile, idfile, fault) ==
  LET bucket == GetBucket(c.dest_bucket_prefix_)
      dbid == ReadDbid(loc, localfile)
      st0 == IF fault = "read" \/ ~LocalExists(loc, localfile)
             THEN IOError ELSE OK
      up == CopyToS3(loc, store, localfile, bucket, idfile, fault = "put")
      st1 == IF st0 = OK THEN up.st ELSE st0
      store1 == IF st0 = OK THEN up.store ELSE store
      calls1 == IF st0 = OK THEN up.calls ELSE <<>>
      reg == SaveDbid(c, store1, dbid, c.dest_object_prefix_, fault = "dbid")
      saves == st1 = OK /\ c.dest_object_prefix_ # <<>>
  IN [st |-> IF saves THEN reg.st ELSE st1,
      store |-> IF saves THEN reg.store ELSE store1,
      calls |-> IF saves
                THEN Append(calls1, Request("Put", bucket, dbid_registry_ \o dbid))
                ELSE calls1]

\* The renames AwsEnv::RenameFile refuses: decided on the target.
RenameRefused(src, target) ==
  LET t == GetFileType(target)
  IN t.sst \/ t.log \/ t.manifest

\* A RenameFile that renames whatever SaveIdentitytoS3 returned.
RenameFile_Always(c, loc, store, src, target, fault) ==
  LET t == GetFileType(target)
  IN IF RenameRefused(src, target)
     THEN [st |-> NotSupported, local |-> loc, store |-> store,
           calls |-> <<>>, asserts |-> FALSE]
     ELSE IF ~t.identity \/ ~has_dest_bucket_(c)
     THEN LET r == PosixRenameFile(loc, src, target)
          IN [st |-> r.st, local |-> r.local, store |-> store,
              calls |-> <<>>, asserts |-> TRUE]
     ELSE LET u == SaveIdentitytoS3(c, loc, store, src, destname(c, target),
                                    fault)
              r == PosixRenameFile(loc, src, target)
          IN [st |-> IF u.st = OK THEN r.st ELSE u.st,
              local |-> r.local,
              store |-> u.store, calls |-> u.calls,
              asserts |-> basename(target) = <<"IDENTITY">>]

\* AwsEnv::RenameFile
RenameFile(c, loc, store, src, target, fault) ==
  LET t == GetFileType(target)
  IN IF RenameRefused(src, target)
     THEN [st |-> NotSupported, local |-> loc, store |-> store,
           calls |-> <<>>, asserts |-> FALSE]
     ELSE IF ~t.identity \/ ~has_dest_bucket_(c)
     THEN LET r == PosixRenameFile(loc, src, target)
          IN [st |-> r.st, local |-> r.local, store |-> store,
              calls |-> <<>>, asserts |-> TRUE]
     ELSE LET u == SaveIdentitytoS3(c, loc, store, src, destname(c, target),
                                    fault)
              r == PosixRenameFile(loc, src, target)
          IN [st |-> IF u.st = OK THEN r.st ELSE u.st,
              local |-> IF u.st = OK THEN r.local ELSE loc,
              store |-> u.store, calls |-> u.calls,
              asserts |-> basename(target) = <<"IDENTITY">>]

\* base_env_->CreateDir, CreateDirIfMissing, DeleteDir
PosixCreateDir(loc, dir) ==
  IF LocalExists(loc, dir) THEN [st |-> IOError, local |-> loc]
  ELSE [st |-> OK, local |-> LocalWrite(loc, dir, DirEntry)]

PosixCreateDirIfMissing(loc, dir) ==
  IF LocalExists(loc, dir) THEN [st |-> OK, local |-> loc]
  ELSE [st |-> OK, local |-> LocalWrite(loc, dir, DirEntry)]

PosixDeleteDir(loc, dir) ==
  IF ~LocalExists(loc, dir)
       \/ \E f \in DOMAIN loc : f # dir /\ IsPrefix(dir \o <<"/">>, f)
  THEN [st |-> IOError, local |-> loc]
  ELSE [st |-> OK, local |-> LocalRemove(loc, dir)]

\* The PUT of the empty object that stands for a directory in dest.
PutMarker(c, store, dir, putFails) ==
  LET bucket == GetBucket(c.dest_bucket_prefix_)
      calls == <<Request("Put", bucket, destname(c, dir))>>
  IN IF putFails THEN [st |-> IOError, store |-> store, calls |-> calls]
     ELSE [st |-> OK,
           store |-> StorePut(store, bucket, destname(c, dir),
                              Object(0, NoMetadata)),
           calls |-> calls]

\* AwsEnv::CreateDir
CreateDir(c, loc, store, dir, putFails) ==
  LET m == IF has_dest_bucket_(c) THEN PutMarker(c, store, dir, putFails)
           ELSE [st |-> OK, store |-> store, calls |-> <<>>]
      r == PosixCreateDir(loc, dir)
  IN IF m.st # OK
     THEN [st |-> m.st, local |-> loc, store |-> m.store, calls |-> m.calls,
           asserts |-> TRUE]
     ELSE [st |-> r.st, local |-> r.local, store |-> m.store,
           calls |-> m.calls, asserts |-> TRUE]

\* AwsEnv::CreateDirIfMissing
CreateDirIfMissing(c, loc, store, dir, putFails) ==
  LET m == IF has_dest_bucket_(c) THEN PutMarker(c, store, dir, putFails)
           ELSE [st |-> OK, store |-> store, calls |-> <<>>]
      r == PosixCreateDirIfMissing(loc, dir)
  IN IF m.st # OK
     THEN [st |-> m.st, local |-> loc, store |-> m.store, calls |-> m.calls,
           asserts |-> TRUE]
     ELSE [st |-> r.st, local |-> r.local, store |-> m.store,
           calls |-> m.calls, asserts |-> TRUE]

\* AwsEnv::DeleteDir.  The status of the listing is looked at only to
\* refuse a directory that has entries; the DELETE of the marker follows
\* in every other case and its status replaces that of the listing.
DeleteDir(c, loc, store, dir, listFails, delFails) ==
  LET bucket == GetBucket(c.dest_bucket_prefix_)
      l == GetChildrenFromS3(store, destname(c, dir), c.dest_bucket_prefix_,
                             listFails)
      list == <<Request("List", bucket, destname(c, dir))>>
      d == DeletePathInS3(store, c.dest_bucket_prefix_, destname(c, dir),
                          delFails)
      refused == has_dest_bucket_(c) /\ l.st = OK /\ Len(l.result) # 0
      st == IF has_dest_bucket_(c) THEN d.st ELSE OK
      store1 == IF has_dest_bucket_(c) THEN d.store ELSE store
      calls == IF has_dest_bucket_(c) THEN list \o d.calls ELSE <<>>
      r == PosixDeleteDir(loc, dir)
  IN IF refused
     THEN [st |-> IOError, local |-> loc, store |-> store, calls |-> list,
           asserts |-> ~IsSstFile(dir)]
     ELSE [st |-> IF st = OK THEN r.st ELSE st,
           local |-> IF st = OK THEN r.local ELSE loc,
           store |-> store1, calls |-> calls,
           asserts |-> ~IsSstFile(dir)]

(***************************************************************************)
(* SpecDir: renames and directory operations in any order, over every      *)
(* binding, with the directory and its marker there or not at the start.   *)
(***************************************************************************)
RenameSrcs == {SstName, ManifestName, LogName, IdentityTmp}
RenameTargets == {SstName, ManifestName, LogName, IdentityName, CurrentName}
RenameFaults == {"none", "read", "put", "dbid"}

\* The marker of the directory and an object below it, in dest.
DirSlots(c) ==
  IF has_dest_bucket_(c)
  THEN {<<GetBucket(c.dest_bucket_prefix_), destname(c, DirName)>>,
        <<GetBucket(c.dest_bucket_prefix_),
          destname(c, DirName) \o <<"/", "MANIFEST">> >>}
  ELSE {}

\* At most one file to rename, the identity file possibly empty, and the
\* directory there or not.
DirPlaces ==
  /\ cfg \in {Join(b, Options(TRUE, TRUE, 0)) : b \in Bindings}
  /\ \E hasDir \in BOOLEAN, srcs \in {{}} \cup {{f} : f \in RenameSrcs},
          size \in 0..1 :
       /\ size = 0 => srcs = {IdentityTmp}
       /\ local = [f \in (srcs \cup IF hasDir THEN {DirName} ELSE {}) |->
                     IF f = DirName THEN DirEntry ELSE size]
  /\ s3 \in Stores(DirSlots(cfg), 0)

DirInit ==
  /\ DirPlaces
  /\ now = 0
  /\ wf = Null
  /\ last = Idle
  /\ DelInit

\* The outcome r of the operation becomes the state; last keeps what was
\* asked, what came back, the requests issued and whether anything changed.
DirApply(op, args, r) ==
  /\ local' = r.local
  /\ s3' = r.store
  /\ last' = [op |-> op, args |-> args, st |-> r.st, calls |-> r.calls,
              asserts |-> r.asserts,
              changed |-> r.local # local \/ r.store # s3,
              had |-> LocalExists(local, args.name)]
  /\ UNCHANGED <<cfg, now, wf>>
  /\ UNCHANGED delVars

DoRenameFile(src, target, fault) ==
  DirApply("RenameFile",
           [name |-> src, target |-> target, fault |-> fault],
           RenameFile(cfg, local, s3, src, target, fault))

DoCreateDir(dir, putFails) ==
  DirApply("CreateDir", [name |-> dir, putFails |-> putFails],
           CreateDir(cfg, local, s3, dir, putFails))

DoCreateDirIfMissing(dir, putFails) ==
  DirApply("CreateDirIfMissing", [name |-> dir, putFails |-> putFails],
           CreateDirIfMissing(cfg, local, s3, dir, putFails))

DoDeleteDir(dir, listFails, delFails) ==
  DirApply("DeleteDir",
           [name |-> dir, listFails |-> listFails, delFails |-> delFails,
            listed |-> GetChildrenFromS3(s3, destname(cfg, dir),
                                         cfg.dest_bucket_prefix_, FALSE).result],
           DeleteDir(cfg, local, s3, dir, listFails, delFails))

DirNext ==
  \/ \E src \in RenameSrcs, target \in RenameTargets, fault \in RenameFaults :
       /\ fault # "none" => IsIdentityFile(target) /\ has_dest_bucket_(cfg)
       /\ DoRenameFile(src, target, fault)
  \/ \E putFails \in BOOLEAN : DoCreateDir(DirName, putFails)
  \/ \E putFails \in BOOLEAN : DoCreateDirIfMissing(DirName, putFails)
  \/ \E listFails \in BOOLEAN, delFails \in BOOLEAN :
       DoDeleteDir(DirName, listFails, delFails)

SpecDir == DirInit /\ [][DirNext]_vars

(***************************************************************************)
(* C11.  RenameFile returns NotSupported and changes neither the local     *)
(* files nor the objects of dest whenever its source or its target is the  *)
(* name of an SST, a MANIFEST or a LOG file; a successful RenameFile to    *)
(* IDENTITY with a dest bucket has PUT the file at destname(IDENTITY) and  *)
(* renamed it locally.  The first half is stated for a source that is     *)
(* there, the case in which a rename can change anything.                  *)
(***************************************************************************)
IsDataName(fname) ==
  LET t == GetFileType(fname) IN t.sst \/ t.log \/ t.manifest

C11_RenamePolicy ==
  last.op = "RenameFile" =>
    /\ (last.had
          /\ (IsDataName(last.args.name) \/ IsDataName(last.args.target))) =>
         last.st = NotSupported /\ ~last.changed
    /\ (~IsDataName(last.args.name) /\ IsIdentityFile(last.args.target)
          /\ has_dest_bucket_(cfg) /\ last.st = OK) =>
         /\ Len(last.calls) > 0
         /\ last.calls[1] = Request("Put", GetBucket(cfg.dest_bucket_prefix_),
                                    destname(cfg, last.args.target))
         /\ Stored(s3, GetBucket(cfg.dest_bucket_prefix_),
                   destname(cfg, last.args.target))
         /\ LocalExists(local, last.args.target)
         /\ ~LocalExists(local, last.args.name)

(***************************************************************************)
(* C17.  DeleteDir with a dest bucket: when the listing of the dest prefix *)
(* fails, DeleteDir returns an error, sends no DELETE and removes neither  *)
(* the marker nor the local directory; when the listing is empty it sends  *)
(* the DELETE of the marker and, on its success, removes the local         *)
(* directory; when the listing is not empty it returns IOError and removes *)
(* nothing.                                                                *)
(***************************************************************************)
MarkerDelete ==
  Request("Delete", GetBucket(cfg.dest_bucket_prefix_),
          destname(cfg, last.args.name))

C17_DeleteDirCases ==
  (last.op = "DeleteDir" /\ has_dest_bucket_(cfg)) =>
    /\ last.args.listFails =>
         /\ last.st # OK
         /\ ~last.changed
         /\ \A i \in 1..Len(last.calls) : last.calls[i] # MarkerDelete
    /\ (~last.args.listFails /\ last.args.listed = <<>>) =>
         /\ \E i \in 1..Len(last.calls) : last.calls[i] = MarkerDelete
         /\ last.st = OK => ~LocalExists(local, last.args.name)
    /\ (~last.args.listFails /\ last.args.listed # <<>>) =>
         last.st = IOError /\ ~last.changed

(***************************************************************************)
(* Construction.  The regions are the trimmed strings the constructor      *)
(* compares; a CreateBucket that finds the bucket there counts as a        *)
(* success.                                                                *)
(***************************************************************************)
Regions == {<<>>, <<"us-west-2">>, <<"us-east-1">>}

\* S3WritableFile::CreateBucketInS3
CreateBucketInS3(bucket_prefix, fails) ==
  [st |-> IF fails THEN IOError ELSE OK,
   calls |-> <<Request("CreateBucket", GetBucket(bucket_prefix), <<>>)>>]

\* AwsEnv::AwsEnv: the status it leaves in create_bucket_status_, whether it
\* got as far as starting file_deletion_thread_, and the requests it sent.
AwsEnvCtor(c, createFails, streamFails) ==
  IF has_two_unique_buckets_(c)
       /\ c.src_bucket_region_ # c.dest_bucket_region_
  THEN [status |-> InvalidArgument, thread_started |-> FALSE, calls |-> <<>>]
  ELSE LET b == IF has_dest_bucket_(c)
                THEN CreateBucketInS3(c.dest_bucket_prefix_, createFails)
                ELSE [st |-> OK, calls |-> <<>>]
       IN [status |-> IF b.st = OK /\ ~c.keep_local_log_files /\ streamFails
                      THEN IOError ELSE b.st,
           thread_started |-> TRUE,
           calls |-> b.calls]

\* AwsEnv::~AwsEnv: file_deletion_thread_.join() on a thread that was never
\* started throws std::system_error out of the destructor, which ends the
\* process.
AwsEnvDtor(aenv) == IF aenv.thread_started THEN "joined" ELSE "terminate"

\* AwsEnv::NewAwsEnv
NewAwsEnv(c, createFails, streamFails) ==
  LET aenv == AwsEnvCtor(c, createFails, streamFails)
  IN IF aenv.status # OK
     THEN [st |-> aenv.status, cenv |-> Null, calls |-> aenv.calls,
           returns |-> AwsEnvDtor(aenv) = "joined"]
     ELSE [st |-> OK, cenv |-> aenv, calls |-> aenv.calls, returns |-> TRUE]

(***************************************************************************)
(* SpecNew: one NewAwsEnv over every pairing of buckets, prefixes and      *)
(* regions.                                                                *)
(***************************************************************************)
NewInit ==
  /\ cfg \in
       { Join([src_bucket_prefix_ |-> sb, src_object_prefix_ |-> <<"db1">>,
               src_bucket_region_ |-> sr, dest_bucket_prefix_ |-> db,
               dest_object_prefix_ |-> dp, dest_bucket_region_ |-> dr],
              Options(TRUE, kl, 0)) :
           sb \in {<<>>, <<"acme">>}, db \in {<<>>, <<"acme">>, <<"beta">>},
           dp \in {<<"db1">>, <<"db2">>}, sr \in Regions, dr \in Regions,
           kl \in BOOLEAN }
  /\ local = <<>>
  /\ s3 = <<>>
  /\ now = 0
  /\ wf = Null
  /\ last = Idle
  /\ DelInit

DoNewAwsEnv(createFails, streamFails) ==
  /\ last = Idle
  /\ last' = Join([op |-> "NewAwsEnv"],
                  NewAwsEnv(cfg, createFails, streamFails))
  /\ UNCHANGED <<cfg, local, s3, now, wf>>
  /\ UNCHANGED delVars

NewNext ==
  \E createFails \in BOOLEAN, streamFails \in BOOLEAN :
    DoNewAwsEnv(createFails, streamFails)

SpecNew == NewInit /\ [][NewNext]_vars

(***************************************************************************)
(* C12.  Whenever a src and a dest bucket are both configured and their    *)
(* regions differ, NewAwsEnv returns InvalidArgument, hands out no         *)
(* environment and has sent no CreateBucket.                               *)
(***************************************************************************)
C12_CrossRegionRejected ==
  (last.op = "NewAwsEnv" /\ has_src_bucket_(cfg) /\ has_dest_bucket_(cfg)
     /\ cfg.src_bucket_region_ # cfg.dest_bucket_region_) =>
    /\ last.returns
    /\ last.st = InvalidArgument
    /\ last.cenv = Null
    /\ last.calls = <<>>

(***************************************************************************)
(* Probes: NewSequentialFile, FileExists, GetFileSize and                  *)
(* GetFileModificationTime.  fault.dest / fault.src: the requests to that  *)
(* bucket fail during the call.                                            *)
(***************************************************************************)
\* A NewSequentialFile that never opens the local file.
NewSequentialFile_NoLocal(c, loc, store, fname, options, fault) ==
  IF CheckOption(c, options) # OK
  THEN Outcome(CheckOption(c, options), Null, loc, <<>>)
  ELSE OpenRemote(c, loc, store, fname, fault, IOError, <<>>)

\* AwsEnv::NewSequentialFile
NewSequentialFile(c, loc, store, fname, options, fault) ==
  LET type == GetFileType(fname)
      chk == CheckOption(c, options)
      st == PosixOpen(loc, fname)
  IN IF chk # OK THEN Outcome(chk, Null, loc, <<>>)
     ELSE IF type.sst \/ type.manifest \/ type.identity THEN
       IF st = OK THEN Outcome(OK, PosixFile(fname), loc, <<>>)
       ELSE OpenRemote(c, loc, store, fname, fault, st, <<>>)
     ELSE IF type.log /\ ~c.keep_local_log_files THEN
       LET pathname == GetCachePath(fname)
           r == RetryOpen(loc, pathname)
       IN Outcome(r, IF r = OK THEN PosixFile(pathname) ELSE Null, loc, <<>>)
     ELSE Outcome(st, IF st = OK THEN PosixFile(fname) ELSE Null, loc, <<>>)

\* S3ReadableFile::Read(0, ...) on a fresh S3ReadableFile: the status of the
\* HEAD when it is not OK; no request for an empty object; else a GET of one
\* byte.  size and object are what GetSize / GetLastModTime then read.
ReadNothing(store, bucket_prefix, fname, fails) ==
  LET f == S3ReadableFile(store, bucket_prefix, fname, fails)
      head == Request("Head", f.s3_bucket, f.s3_object)
  IN [st |-> f.status,
      size |-> f.file_size,
      object |-> <<f.s3_bucket, f.s3_object>>,
      calls |-> IF f.status = OK /\ f.file_size > 0
                THEN <<head, Request("Get", f.s3_bucket, f.s3_object)>>
                ELSE <<head>>]

\* AwsEnv::PathExistsInS3
PathExistsInS3(store, fname, bucket_prefix, fails) ==
  ReadNothing(store, bucket_prefix, fname, fails)

\* A FileExists that probes src only when there is no dest bucket.
FileExists_NoSrcAfterDest(c, loc, store, fname, fault) ==
  LET st0 == PosixFileExists(loc, fname)
      d == PathExistsInS3(store, destname(c, fname), c.dest_bucket_prefix_,
                          fault.dest)
      tryDest == st0 = NotFound /\ has_dest_bucket_(c)
      st1 == IF tryDest THEN d.st ELSE st0
      s == PathExistsInS3(store, srcname(c, fname), c.src_bucket_prefix_,
                          fault.src)
      trySrc == st1 = NotFound /\ has_src_bucket_(c) /\ ~has_dest_bucket_(c)
  IN [st |-> IF trySrc THEN s.st ELSE st1,
      calls |-> (IF tryDest THEN d.calls ELSE <<>>)
                  \o (IF trySrc THEN s.calls ELSE <<>>)]

\* AwsEnv::FileExists
FileExists(c, loc, store, fname, fault) ==
  LET type == GetFileType(fname)
      st0 == PosixFileExists(loc, fname)
      d == PathExistsInS3(store, destname(c, fname), c.dest_bucket_prefix_,
                          fault.dest)
      tryDest == st0 = NotFound /\ has_dest_bucket_(c)
      st1 == IF tryDest THEN d.st ELSE st0
      s == PathExistsInS3(store, srcname(c, fname), c.src_bucket_prefix_,
                          fault.src)
      trySrc == st1 # OK /\ has_src_bucket_(c)
  IN IF type.sst \/ type.manifest \/ type.identity
     THEN [st |-> IF trySrc THEN s.st ELSE st1,
           calls |-> (IF tryDest THEN d.calls ELSE <<>>)
                       \o (IF trySrc THEN s.calls ELSE <<>>)]
     ELSE IF type.log /\ ~c.keep_local_log_files
     THEN [st |-> RetryOpen(loc, GetCachePath(fname)), calls |-> <<>>]
     ELSE [st |-> st0, calls |-> <<>>]

\* AwsEnv::GetFileInfoInS3
GetFileInfoInS3(store, bucket_prefix, fname, fails) ==
  ReadNothing(store, bucket_prefix, fname, fails)

\* What GetFileSize and GetFileModificationTime share: the local file when
\* it is there, else dest, else src when dest said NotFound; only for an
\* sst name.  place is where the answer comes from: a local path or an
\* object.
LocalElseS3(c, loc, store, fname, fault) ==
  LET type == GetFileType(fname)
      d == GetFileInfoInS3(store, c.dest_bucket_prefix_, destname(c, fname),
                           fault.dest)
      st1 == IF has_dest_bucket_(c) THEN d.st ELSE NotFound
      s == GetFileInfoInS3(store, c.src_bucket_prefix_, srcname(c, fname),
                           fault.src)
      trySrc == st1 = NotFound /\ has_src_bucket_(c)
      st2 == IF trySrc THEN s.st ELSE st1
      r == IF trySrc THEN s ELSE d
      posix == IF LocalExists(loc, fname)
               THEN [st |-> OK, place |-> << <<"local">>, fname >>,
                     calls |-> <<>>]
               ELSE [st |-> IOError, place |-> Null, calls |-> <<>>]
  IN IF type.sst
     THEN IF PosixFileExists(loc, fname) = OK THEN posix
          ELSE [st |-> st2,
                place |-> IF st2 = OK THEN r.object ELSE Null,
                calls |-> (IF has_dest_bucket_(c) THEN d.calls ELSE <<>>)
                            \o (IF trySrc THEN s.calls ELSE <<>>)]
     ELSE IF type.log /\ ~c.keep_local_log_files
     THEN IF RetryOpen(loc, GetCachePath(fname)) = OK
          THEN [st |-> OK, place |-> << <<"local">>, GetCachePath(fname) >>,
                calls |-> <<>>]
          ELSE [st |-> TimedOut, place |-> Null, calls |-> <<>>]
     ELSE posix

\* AwsEnv::GetFileSize: the size of the local file or of the object.
GetFileSize(c, loc, store, fname, fault) ==
  LET r == LocalElseS3(c, loc, store, fname, fault)
  IN [st |-> r.st,
      value |-> IF r.st # OK THEN Null
                ELSE IF r.place[1] = <<"local">> THEN loc[r.place[2]]
                ELSE store[r.place].size,
      calls |-> r.calls]

\* AwsEnv::GetFileModificationTime: the time is named by its place.
GetFileModificationTime(c, loc, store, fname, fault) ==
  LET r == LocalElseS3(c, loc, store, fname, fault)
  IN [st |-> r.st,
      value |-> IF r.st # OK THEN Null ELSE [mtime_of |-> r.place],
      calls |-> r.calls]

(***************************************************************************)
(* SpecProbe: one name, there or not locally, in dest and in src, and the  *)
(* four probes on it in any order.                                         *)
(***************************************************************************)
ProbeNames == {SstName, ManifestName, IdentityName}

ProbeInit ==
  /\ cfg \in {Join(b, Options(k, TRUE, 0)) : b \in Bindings, k \in BOOLEAN}
  /\ \E n \in ProbeNames :
       /\ local \in Locals({n}, 1)
       /\ s3 \in Stores(Slots(cfg, {n}), 1)
  /\ now = 0
  /\ wf = Null
  /\ last = Idle
  /\ DelInit

Probed(op, fname, options, fault, r) ==
  /\ last' = [op |-> op, fname |-> fname, options |-> options,
              fault |-> fault, out |-> r]
  /\ UNCHANGED <<cfg, local, s3, now, wf>>
  /\ UNCHANGED delVars

DoNewSequentialFile(fname, options, fault) ==
  Probed("NewSequentialFile", fname, options, fault,
         NewSequentialFile(cfg, local, s3, fname, options, fault))

DoFileExists(fname, fault) ==
  Probed("FileExists", fname, Null, fault,
         FileExists(cfg, local, s3, fname, fault))

DoGetFileSize(fname, fault) ==
  Probed("GetFileSize", fname, Null, fault,
         GetFileSize(cfg, local, s3, fname, fault))

DoGetFileModificationTime(fname, fault) ==
  Probed("GetFileModificationTime", fname, Null, fault,
         GetFileModificationTime(cfg, local, s3, fname, fault))

ProbeNext ==
  \E fname \in ProbeNames, fault \in Faults :
    \/ \E options \in [use_mmap_reads : BOOLEAN] :
         DoNewSequentialFile(fname, options, fault)
    \/ DoFileExists(fname, fault)
    \/ DoGetFileSize(fname, fault)
    \/ DoGetFileModificationTime(fname, fault)

SpecProbe == ProbeInit /\ [][ProbeNext]_vars

(***************************************************************************)
(* Claims on the probes (checked under SpecProbe).  A probe changes        *)
(* neither the local files nor the store: local and s3 are what the call   *)
(* found.                                                                  *)
(***************************************************************************)
\* The file NewSequentialFile handed out is the object in that slot.
ReadsObject(slot) ==
  /\ last.out.st = OK
  /\ last.out.result.kind = "s3"
  /\ <<last.out.result.s3_bucket, last.out.result.s3_object>> = slot

\* The order local, dest, src in the outcome of the last NewSequentialFile.
ReadOrder ==
  IF LocalExists(local, last.fname)
  THEN /\ last.out.st = OK
       /\ last.out.result = PosixFile(last.fname)
       /\ last.out.calls = <<>>
  ELSE IF InDest(cfg, s3, last.fname)
  THEN ReadsObject(DestSlot(cfg, last.fname))
  ELSE IF InSrc(cfg, s3, last.fname)
  THEN ReadsObject(SrcSlot(cfg, last.fname))
  ELSE last.out.st # OK /\ last.out.result = Null

AskedOnly(slot) ==
  \A i \in 1..Len(last.out.calls) :
    <<last.out.calls[i].bucket, last.out.calls[i].key>> = slot

\* C15: FileExists on an SST, MANIFEST or IDENTITY name, its requests
\* answered, returns OK iff the file is there locally, or in a configured
\* dest under destname(name), or in a configured src under srcname(name),
\* and NotFound otherwise.  The tiers are probed in that order: no request
\* is sent for a local file, only dest is asked for a file that is in
\* dest, and dest is asked first when src has to be asked.
C15_FileExists ==
  (last.op = "FileExists" /\ last.fault = NoFault) =>
    /\ last.out.st = OK <=> \/ LocalExists(local, last.fname)
                            \/ InDest(cfg, s3, last.fname)
                            \/ InSrc(cfg, s3, last.fname)
    /\ last.out.st \in {OK, NotFound}
    /\ LocalExists(local, last.fname) => last.out.calls = <<>>
    /\ (~LocalExists(local, last.fname) /\ InDest(cfg, s3, last.fname)) =>
         AskedOnly(DestSlot(cfg, last.fname))
    /\ (~LocalExists(local, last.fname) /\ has_dest_bucket_(cfg)) =>
         /\ Len(last.out.calls) > 0
         /\ last.out.calls[1] = Request("Head", DestSlot(cfg, last.fname)[1],
                                        DestSlot(cfg, last.fname)[2])

\* C15 witness: with two distinct buckets, a file that is neither local
\* nor in dest was found in src, after dest was asked.
C15_Witness ==
  /\ last.op = "FileExists"
  /\ last.fault = NoFault
  /\ has_two_unique_buckets_(cfg)
  /\ ~LocalExists(local, last.fname)
  /\ ~InDest(cfg, s3, last.fname)
  /\ InSrc(cfg, s3, last.fname)
  /\ last.out.st = OK
  /\ Len(last.out.calls) >= 2

\* C15, second sentence (checked under SpecWrite): once an sst written with
\* keep_local_sst_files = false is closed, the local file is gone and
\* FileExists on its name returns OK after asking dest.
C15_AfterClose ==
  (SstClosed /\ ~cfg.keep_local_sst_files) =>
    LET r == FileExists(cfg, local, s3, last.fname, NoFault)
    IN /\ ~LocalExists(local, last.fname)
       /\ r.st = OK
       /\ r.calls[1] = Request("Head", DestSlot(cfg, last.fname)[1],
                               DestSlot(cfg, last.fname)[2])

\* What the last GetFileSize / GetFileModificationTime has to hand back
\* when its answer comes from that place.
ValueAt(place) ==
  IF last.op = "GetFileModificationTime" THEN [mtime_of |-> place]
  ELSE IF place[1] = <<"local">> THEN local[place[2]]
  ELSE s3[place].size

\* C16: GetFileSize and GetFileModificationTime on an SST, MANIFEST or
\* IDENTITY name, their requests answered, return the local value when the
\* file is there locally, otherwise OK with the value of the object in
\* dest, otherwise OK with the value of the object in src.
C16_SizeAndTime ==
  (last.op \in {"GetFileSize", "GetFileModificationTime"}
     /\ last.fault = NoFault) =>
    IF LocalExists(local, last.fname)
    THEN /\ last.out.st = OK
         /\ last.out.value = ValueAt(<< <<"local">>, last.fname >>)
         /\ last.out.calls = <<>>
    ELSE IF InDest(cfg, s3, last.fname)
    THEN /\ last.out.st = OK
         /\ last.out.value = ValueAt(DestSlot(cfg, last.fname))
    ELSE IF InSrc(cfg, s3, last.fname)
    THEN /\ last.out.st = OK
         /\ last.out.value = ValueAt(SrcSlot(cfg, last.fname))
    ELSE last.out.st # OK

(***************************************************************************)
(* SpecRoute: one NewWritableFile, for every binding and every value of    *)
(* the options, on a name of each kind.                                    *)
(***************************************************************************)
RouteNames == {SstName, ManifestName, LogName, IdentityName, CurrentName}

RouteInit ==
  /\ cfg \in {Join(b, Options(ks, kl, p)) :
                b \in Bindings, ks \in BOOLEAN, kl \in BOOLEAN,
                p \in 0..MaxPeriod}
  /\ local = <<>>
  /\ s3 = <<>>
  /\ now = 0
  /\ wf = Null
  /\ last = Idle
  /\ DelInit

RouteNext == \E fname \in RouteNames : DoNewWritableFile(fname)

SpecRoute == RouteInit /\ [][RouteNext]_vars

(***************************************************************************)
(* C18.  With keep_local_log_files = false, NewWritableFile on a LOG or a  *)
(* MANIFEST name creates no local file and hands out the file of the       *)
(* streaming log, for every binding of the buckets.                        *)
(***************************************************************************)
C18_NoLocalLogOrManifest ==
  (last.op = "NewWritableFile" /\ ~cfg.keep_local_log_files
     /\ (IsLogFile(last.fname) \/ IsManifestFile(last.fname))) =>
    /\ ~LocalExists(local, last.fname)
    /\ wf.kind = "kinesis"

(***************************************************************************)
(* C19 (checked under SpecWrite).  After any Append, Sync, Close or        *)
(* destruction of a manifest writable file, for either value of            *)
(* keep_local_sst_files and whether its steps succeed or fail, the local   *)
(* manifest file is still there.  Flush goes to the local file alone.      *)
(***************************************************************************)
C19_ManifestKept ==
  (last.op \in {"Append", "Sync", "Close", "Destroy"}
     /\ IsManifestFile(last.fname)) =>
    LocalExists(local, last.fname)

\* C19 witness: with keep_local_sst_files = false, the Close of a manifest
\* routed to the store uploaded it and left the local file.
C19_Witness ==
  /\ OnOpenManifest({"Close"})
  /\ ~cfg.keep_local_sst_files
  /\ last.st = OK
  /\ OnePut
  /\ LocalExists(local, last.fname)

(***************************************************************************)
(* C20 (checked under SpecDel).  While the DELETE of the deletion worker   *)
(* is in flight, file_deletion_lock_ is not held: a DeleteFile or the      *)
(* destructor can take it.                                                 *)
(***************************************************************************)
C20_LockFreeDuringDelete ==
  worker.pc = "delete" => lock = NoThread

(***************************************************************************)
(* SpecSurface: src and dest are two distinct places.  A behaviour is of   *)
(* one of three kinds: a file is written; or directories are made and      *)
(* removed and files renamed, with no writable file (wf = Unused); or      *)
(* files are deleted while the deletion thread runs.                       *)
(***************************************************************************)
SurfaceBindings == {b \in Bindings : has_two_unique_buckets_(b)}

Unused == [kind |-> "unused"]

SurfaceInit ==
  \/ WriteInit /\ has_two_unique_buckets_(cfg)
  \/ /\ DirPlaces
     /\ has_two_unique_buckets_(cfg)
     /\ now = 0
     /\ wf = Unused
     /\ last = Idle
     /\ DelInit
  \/ DelInitOver(SurfaceBindings)

SurfaceNext ==
  \/ worker.pc = "off" /\ wf # Unused /\ WriteNext
  \/ wf = Unused /\ DirNext
  \/ /\ worker.pc # "off"
     /\ \/ DelTick
        \/ \E p \in Producers, fname \in DelNames : DeleteFileEnqueue(p, fname)
        \/ \E p \in Producers : DeleteFileLocal(p)
        \/ WorkerLock
        \/ WorkerWake
        \/ WorkerTimedWake
        \/ \E fails \in BOOLEAN : WorkerDelete(fails)
        \/ DtorShutdown
        \/ DtorJoin

SpecSurface == SurfaceInit /\ [][SurfaceNext]_vars

(***************************************************************************)
(* C13 (checked under SpecSurface).  With src and dest two distinct        *)
(* places, no Put, Delete or Copy sent by a writable file, by DeleteFile   *)
(* and the deletion thread, by CreateDir, CreateDirIfMissing, DeleteDir or *)
(* RenameFile goes to the src bucket under the object prefix of src: each  *)
(* goes to the dest bucket, under the object prefix of dest or into the    *)
(* dbid registry.                                                          *)
(***************************************************************************)
IsWrite(call) == call.op \in {"Put", "Delete", "Copy"}

TargetsSrc(call) ==
  /\ call.bucket = GetBucket(cfg.src_bucket_prefix_)
  /\ IsPrefix(cfg.src_object_prefix_ \o <<"/">>, call.key)

TargetsDest(call) ==
  /\ call.bucket = GetBucket(cfg.dest_bucket_prefix_)
  /\ \/ IsPrefix(cfg.dest_object_prefix_ \o <<"/">>, call.key)
     \/ IsPrefix(dbid_registry_, call.key)

\* The requests of the last operation and of the deletion thread so far.
Issued ==
  (IF "calls" \in DOMAIN last THEN {last.calls} ELSE {})
    \cup {hist[i].calls : i \in 1..Len(hist)}

C13_SrcReadOnly ==
  has_two_unique_buckets_(cfg) =>
    \A calls \in Issued : \A i \in 1..Len(calls) :
      IsWrite(calls[i]) => ~TargetsSrc(calls[i]) /\ TargetsDest(calls[i])

\* C13 witness: src and dest are two prefixes of one bucket, and a Put or a
\* Delete was sent to it.
C13_Witness ==
  /\ has_two_unique_buckets_(cfg)
  /\ cfg.src_bucket_prefix_ = cfg.dest_bucket_prefix_
  /\ \E calls \in Issued : \E i \in 1..Len(calls) :
       /\ IsWrite(calls[i])
       /\ calls[i].bucket = GetBucket(cfg.src_bucket_prefix_)

(***************************************************************************)
(* FairShut: FairDel, and the destructor goes on to join once the thread   *)
(* has ended.                                                              *)
(***************************************************************************)
FairShut == FairDel /\ WF_vars(DtorJoin)

(***************************************************************************)
(* C21.  Once the destructor has cleared running_ under the lock and       *)
(* notified the condition variable, the deletion thread ends and join      *)
(* returns, wherever the thread was (blocked on an empty queue, waiting    *)
(* out the delay of an entry, sending a DELETE, or at the top of the loop) *)
(* and whatever the producers did before.                                  *)
(***************************************************************************)
C21_ShutdownTerminates ==
  (worker.pc # "off" /\ threads.dtor = "set")
    ~> (threads.dtor = "joined" /\ worker.pc = "exit")

\* C21 witness: join has returned from a shutdown that found the thread
\* waiting out the delay of an entry, with a second entry in the queue.
C21_Witness ==
  /\ worker.pc = "exit"
  /\ threads.dtor = "joined"
  /\ worker.held # NoEntry
  /\ now < Deadline(worker.held)
  /\ Len(files_to_delete) = 1

\* The entries the deletion thread has still to handle, oldest first: the
\* one it holds, then the queue.
Pending ==
  (IF worker.held # NoEntry /\ worker.pc \in {"timed", "delete"}
   THEN <<worker.held>> ELSE <<>>) \o files_to_delete

\* Pending entries have never been sent, are in the order of their push,
\* and while the thread lives every entry not yet sent is pending; the
\* DELETEs sent so far are those of the oldest entries, in their order.
FifoOrder ==
  /\ \A k \in DOMAIN Pending :
       /\ Pending[k].id \in DOMAIN hist
       /\ ~hist[Pending[k].id].issued
       /\ Pending[k].fname = hist[Pending[k].id].fname
       /\ \A m \in DOMAIN Pending : k < m => Pending[k].id < Pending[m].id
  /\ worker.pc # "exit" =>
       \A i \in DOMAIN hist :
         ~hist[i].issued => \E k \in DOMAIN Pending : Pending[k].id = i
  /\ \A i, j \in DOMAIN hist :
       i < j /\ hist[j].issued => hist[i].issued /\ hist[i].at <= hist[j].at

\* A step that pushes or pops is taken by a thread that gets the lock (no
\* other thread holds it); a step that sends a DELETE sends the one of the
\* held entry, never sent before, and no other entry's record changes.
QueueStep ==
  /\ files_to_delete' # files_to_delete => lock = NoThread
  /\ \A i \in DOMAIN hist :
       (hist'[i].issued /\ ~hist[i].issued)
         => /\ worker.pc = "delete" /\ worker.held.id = i
            /\ \A j \in DOMAIN hist : j # i => hist'[j] = hist[j]
  /\ \A i \in DOMAIN hist :
       hist[i].issued =>
         /\ hist'[i].issued /\ hist'[i].at = hist[i].at
         /\ hist'[i].calls = hist[i].calls

(***************************************************************************)
(* C22.  The deletion thread is the one consumer of a FIFO: the DELETEs    *)
(* go out one at a time in the order DeleteFile pushed the entries, no     *)
(* entry is sent twice, and the queue is pushed to and popped from only    *)
(* by a thread that holds file_deletion_lock_.                             *)
(***************************************************************************)
C22_SingleConsumerFifo == []FifoOrder /\ [][QueueStep]_vars

\* C22 witness: two entries were in the queue together, pushed by two
\* producers, and both DELETEs have gone out, the older first.
C22_Witness ==
  /\ Len(hist) = 2
  /\ hist[1].issued /\ hist[2].issued
  /\ hist[1].at < hist[2].at
  /\ hist[2].time < hist[1].at

\* The last NewSequentialFile or FileExists went past the local tier and
\* its HEAD of the dest object failed with an error other than "no such
\* key".
DestProbeFailed ==
  /\ last.op \in {"NewSequentialFile", "FileExists"}
  /\ last.op = "NewSequentialFile" => CheckOption(cfg, last.options) = OK
  /\ has_dest_bucket_(cfg)
  /\ ~LocalExists(local, last.fname)
  /\ last.fault.dest

(***************************************************************************)
(* C23.  In NewSequentialFile and FileExists on an SST, MANIFEST or        *)
(* IDENTITY name, a dest probe that fails with an IOError (not NotFound)   *)
(* ends the call: the IOError is returned and src is not asked.            *)
(***************************************************************************)
C23_OnlyNotFoundFallsThrough ==
  DestProbeFailed =>
    /\ last.out.st = IOError
    /\ last.out.calls = <<Request("Head", DestSlot(cfg, last.fname)[1],
                                  DestSlot(cfg, last.fname)[2])>>

(***************************************************************************)
(* KinesisSystem::Retry.  The clock is now, in microseconds; last is the   *)
(* frame of the call: where it is, the instant it started, the statuses    *)
(* the closure returned, the sleeps taken and, at the end, the status      *)
(* returned.                                                               *)
(***************************************************************************)
retry_period_micros == 200000

SleepMicros == 100000

\* A Retry that hands back what the closure returned when the time is up.
RetryAfterSleep_KeepsStatus(stat, start, t) ==
  IF start + retry_period_micros < t
  THEN [pc |-> "done", stat |-> stat]
  ELSE [pc |-> "call", stat |-> stat]

\* After the sleep: the clock is read, and the loop ends with TimedOut when
\* the period is over.
RetryAfterSleep(stat, start, t) ==
  IF start + retry_period_micros < t
  THEN [pc |-> "done", stat |-> TimedOut]
  ELSE [pc |-> "call", stat |-> stat]

\* What a closure may return.
ClosureStatus == {OK, NotFound, IOError}

\* How much longer than asked a sleep may take, and how long a closure may.
Jitter == {0, 1}

RetryInit ==
  /\ cfg \in {Join(b, Options(TRUE, FALSE, 0)) : b \in DelBindings}
  /\ local = <<>>
  /\ s3 = <<>>
  /\ now \in Jitter
  /\ wf = Null
  /\ last = Idle
  /\ DelInit

\* Retry is entered: start = env->NowMicros().
RetryEnter ==
  /\ last = Idle
  /\ last' = [op |-> "Retry", pc |-> "call", start |-> now, stat |-> OK,
              results |-> <<>>, sleeps |-> 0]
  /\ UNCHANGED <<cfg, local, s3, now, wf>>
  /\ UNCHANGED delVars

\* stat = func(): OK leaves the loop.
RetryCall(stat, took) ==
  /\ last.op = "Retry"
  /\ last.pc = "call"
  /\ now' = now + took
  /\ last' = [last EXCEPT !.pc = IF stat = OK THEN "done" ELSE "sleep",
                          !.stat = stat,
                          !.results = Append(@, stat)]
  /\ UNCHANGED <<cfg, local, s3, wf>>
  /\ UNCHANGED delVars

\* sleep_for(100 ms), then the clock is read and compared.
RetrySleep(over) ==
  /\ last.op = "Retry"
  /\ last.pc = "sleep"
  /\ now' = now + SleepMicros + over
  /\ LET r == RetryAfterSleep(last.stat, last.start, now')
     IN last' = [last EXCEPT !.pc = r.pc, !.stat = r.stat, !.sleeps = @ + 1]
  /\ UNCHANGED <<cfg, local, s3, wf>>
  /\ UNCHANGED delVars

RetryNext ==
  \/ RetryEnter
  \/ \E stat \in ClosureStatus, took \in Jitter : RetryCall(stat, took)
  \/ \E over \in Jitter : RetrySleep(over)

SpecRetry == RetryInit /\ [][RetryNext]_vars

\* The closure returns and the sleep ends.
FairRetry ==
  /\ SpecRetry
  /\ WF_vars(\E stat \in ClosureStatus, took \in Jitter : RetryCall(stat, took))
  /\ WF_vars(\E over \in Jitter : RetrySleep(over))

\* The statuses but the last are failures.
FailedBefore(results) ==
  \A i \in 1..(Len(results) - 1) : results[i] # OK

\* Retry as it goes and as it ends: a sleep after each failure; another
\* invocation only while the period is not exceeded; OK at the first OK of
\* the closure; else TimedOut, with the period exceeded.
RetrySafe ==
  last.op = "Retry" =>
    /\ FailedBefore(last.results)
    /\ last.pc = "call" =>
         /\ last.sleeps = Len(last.results)
         /\ now - last.start <= retry_period_micros
         /\ \A i \in DOMAIN last.results : last.results[i] # OK
    /\ last.pc = "done" =>
         /\ Len(last.results) >= 1
         /\ last.stat \in {OK, TimedOut}
         /\ last.stat = OK =>
              /\ last.results[Len(last.results)] = OK
              /\ last.sleeps = Len(last.results) - 1
         /\ last.stat = TimedOut =>
              /\ last.results[Len(last.results)] # OK
              /\ last.sleeps = Len(last.results)
              /\ now - last.start > retry_period_micros

(***************************************************************************)
(* C24.  KinesisSystem::Retry invokes the closure at least once and        *)
(* returns OK at the first invocation that returns OK; after each failure  *)
(* it sleeps, and once the time since the start exceeds                    *)
(* retry_period_micros it returns TimedOut, never the closure's status     *)
(* and never before the period is exceeded; it ends whenever the clock     *)
(* advances.                                                               *)
(***************************************************************************)
C24_Retry ==
  /\ []RetrySafe
  /\ (last.op = "Retry") ~> (last.op = "Retry" /\ last.pc = "done")

\* C24 witness: TimedOut after three failures, the third invocation made
\* when exactly retry_period_micros had gone by.
C24_Witness ==
  /\ last.op = "Retry"
  /\ last.pc = "done"
  /\ last.stat = TimedOut
  /\ Len(last.results) = 3
  /\ last.results[3] = IOError

\* The writable file is an S3WritableFile of an sst.
IsS3Sst(w) == IsFile(w) /\ w.kind = "s3" /\ ~w.is_manifest_ /\ IsSstFile(w.fname_)

\* One operation on the S3WritableFile of an sst.  A PUT is sent only by a
\* Close, called or run by the destructor, that finds the local handle and
\* releases it, and it is one PUT; Sync sends nothing; with the handle
\* released, Close returns status_, the destructor does nothing, and
\* neither the store nor the local files change; a released handle stays
\* released.
SstFileStep ==
  (IsS3Sst(wf) /\ last'.op \in {"Sync", "Close", "Destroy"}) =>
    /\ last'.calls # <<>> =>
         /\ last'.op \in {"Close", "Destroy"}
         /\ wf.temp_file_
         /\ ~last'.file.temp_file_
         /\ last'.calls = <<Request("Put", wf.s3_bucket_, wf.s3_object_)>>
    /\ last'.op = "Sync" => s3' = s3 /\ last'.calls = <<>>
    /\ ~wf.temp_file_ =>
         /\ last'.calls = <<>>
         /\ s3' = s3 /\ local' = local
         /\ last'.op = "Close" => last'.st = wf.status_
         /\ IsFile(wf') => wf' = wf
    /\ s3' # s3 => last'.calls # <<>>

(***************************************************************************)
(* C25.  For the S3WritableFile of an sst, over any sequence of Append,    *)
(* Sync and Close followed by the destruction, at most one PUT is sent,    *)
(* and it is sent by the Close that releases the local handle: Sync never  *)
(* uploads, a Close after the handle is released sends no PUT and returns  *)
(* the stored status, and the destructor closes (and uploads) only when    *)
(* no Close has released the handle.                                       *)
(***************************************************************************)
C25_SstOnePut == [][SstFileStep]_vars

\* C25 witness: an sst was uploaded by its Close; the Close called again
\* has sent nothing and returned the stored status.
C25_Witness ==
  /\ last.op = "Close"
  /\ IsS3Sst(wf)
  /\ ~last.pre.open
  /\ last.calls = <<>>
  /\ wf.uploaded_at > 0
  /\ last.st = OK
  /\ InDest(cfg, s3, last.fname)

\* The name of the last NewWritableFile is one the router sends to dest.
RoutedToDest ==
  /\ has_dest_bucket_(cfg)
  /\ \/ IsSstFile(last.fname)
     \/ IsIdentityFile(last.fname)
     \/ IsManifestFile(last.fname)
          /\ cfg.manifest_durable_periodicity_millis > 0

MissingSst ==
  /\ last.op = "NewRandomAccessFile"
  /\ IsSstFile(last.fname)
  /\ CheckOption(cfg, last.options) = OK
  /\ ~last.pre.local

\* CopyFromS3 from that slot succeeds: the GET is answered with an object
\* that is not empty.
Copyable(slot, fails) ==
  /\ ~fails
  /\ Stored(s3, slot[1], slot[2])
  /\ s3[slot].size > 0

\* One of the copies of the last call succeeded.
Copied ==
  \/ has_dest_bucket_(cfg)
       /\ Copyable(DestSlot(cfg, last.fname), last.fault.dest)
  \/ has_src_bucket_(cfg)
       /\ Copyable(SrcSlot(cfg, last.fname), last.fault.src)

\* The file was copied to the local path and opened there, and the next
\* open of the name sends no request.
OpenedLocalCopy ==
  /\ LocalExists(local, last.fname)
  /\ last.result = PosixFile(last.fname)
  /\ \A i \in DOMAIN last.calls : last.calls[i].op = "Get"
  /\ NewRandomAccessFile(cfg, local, s3, last.fname, last.options,
                         NoFault).calls = <<>>

\* Nothing is under the local path and the object is read in place.
OpenedRemote ==
  /\ ~LocalExists(local, last.fname)
  /\ last.st = OK => last.result.kind = "s3"

\* C27 (as stated): with keep_local_sst_files = true, NewRandomAccessFile
\* on an sst missing locally that returns OK has copied the object to the
\* local path and opened it there, and a later open sends no request; with
\* keep_local_sst_files = false nothing is copied and the object is opened
\* remotely.
C27_CopyThenLocal_AsStated ==
  MissingSst =>
    IF cfg.keep_local_sst_files
    THEN last.st = OK => OpenedLocalCopy
    ELSE /\ OpenedRemote
         /\ \A i \in DOMAIN last.calls : last.calls[i].op = "Head"

\* C27 (amended): with keep_local_sst_files = true the file is copied and
\* opened locally exactly when a copy succeeds, from dest or else from
\* src; when none does (the GET fails or the object is empty) the call
\* goes on to the remote open, and an OK return then hands out the object
\* with no file under the local path.
C27_CopyThenLocal ==
  MissingSst =>
    IF cfg.keep_local_sst_files
    THEN IF Copied THEN last.st = OK /\ OpenedLocalCopy ELSE OpenedRemote
    ELSE /\ OpenedRemote
         /\ \A i \in DOMAIN last.calls : last.calls[i].op = "Head"

\* C27 witness: with two distinct buckets and keep_local_sst_files = true,
\* an sst absent from dest was copied from src after dest was asked, and
\* handed out as a local file.
C27_Witness ==
  /\ MissingSst
  /\ cfg.keep_local_sst_files
  /\ has_two_unique_buckets_(cfg)
  /\ ~last.pre.dest
  /\ last.st = OK
  /\ OpenedLocalCopy
  /\ Len(last.calls) = 2

(***************************************************************************)
(* SpecList: GetChildrenFromS3 request by request, on a bucket that holds  *)
(* up to MaxObjects keys under the path, a key under another path, and a   *)
(* key of the path in another bucket.  last is the frame of the call: the  *)
(* result so far, the marker of the next request, the markers sent, and    *)
(* whether the server fills in NextMarker.                                 *)
(***************************************************************************)
MaxObjects == 52

\* The numbers of keys under the path: few, and around a page.
ListSizes == 0..3 \cup (MaxKeys - 2)..MaxObjects

NthKey(path, k) ==
  path \o <<"/", Alphabet[((k - 1) \div Len(Alphabet)) + 1],
            Alphabet[((k - 1) % Len(Alphabet)) + 1]>>

ListStore(bucket, path, n, others) ==
  [x \in {<<bucket, NthKey(path, k)>> : k \in 1..n}
           \cup (IF others
                 THEN {<<bucket, NthKey(<<"db2">>, 1)>>,
                       <<GetBucket(<<"other">>), NthKey(path, 1)>>}
                 ELSE {})
     |-> Object(1, NoMetadata)]

ListInit ==
  /\ cfg \in {Join(b, Options(TRUE, TRUE, 0)) :
                b \in {x \in DelBindings : has_dest_bucket_(x)}}
  /\ local = <<>>
  /\ \E n \in ListSizes, others \in BOOLEAN :
       s3 = ListStore(GetBucket(cfg.dest_bucket_prefix_),
                      cfg.dest_object_prefix_, n, others)
  /\ now = 0
  /\ wf = Null
  /\ last = Idle
  /\ DelInit

\* What a server that fills in NextMarker sends with a truncated page.
NextMarker(res, gives) ==
  IF gives /\ res.is_truncated THEN res.contents[Len(res.contents)] ELSE <<>>

\* GetChildrenFromS3 is entered: the marker is empty.
DoListEnter(gives) ==
  /\ last = Idle
  /\ last' = [op |-> "GetChildrenFromS3", pc |-> "request",
              bucket |-> GetBucket(cfg.dest_bucket_prefix_),
              path |-> cfg.dest_object_prefix_, gives |-> gives,
              marker |-> <<>>, markers |-> <<>>, result |-> <<>>, st |-> OK]
  /\ UNCHANGED <<cfg, local, s3, now, wf>>
  /\ UNCHANGED delVars

\* One turn of the loop: a request, and its page added to the result.
DoListRequest(fails) ==
  /\ last.op = "GetChildrenFromS3"
  /\ last.pc = "request"
  /\ LET res == ListObjects(s3, last.bucket, last.path, last.marker, MaxKeys)
         sent == Append(last.markers, last.marker)
     IN last' = IF fails
                THEN [last EXCEPT !.pc = "done", !.st = IOError,
                                  !.markers = sent]
                ELSE IF ~res.is_truncated
                THEN [last EXCEPT !.pc = "done",
                                  !.markers = sent,
                                  !.result = @ \o res.contents]
                ELSE [last EXCEPT !.marker =
                                    Marker(res, NextMarker(res, last.gives)),
                                  !.markers = sent,
                                  !.result = @ \o res.contents]
  /\ UNCHANGED <<cfg, local, s3, now, wf>>
  /\ UNCHANGED delVars

ListNext ==
  \/ \E gives \in BOOLEAN : DoListEnter(gives)
  \/ \E fails \in BOOLEAN : DoListRequest(fails)

SpecList == ListInit /\ [][ListNext]_vars

\* The keys of the bucket that start with the path.
Matching ==
  {x[2] : x \in {y \in DOMAIN s3 : y[1] = last.bucket
                                     /\ IsPrefix(last.path, y[2])}}

\* The listing as it goes: no key twice; the first marker empty and each
\* later one the last key of the page before; and as it ends, when every
\* request was answered: OK with the matching keys, each once, which is
\* what the loop as an operator yields.
ListSafe ==
  last.op = "GetChildrenFromS3" =>
    /\ \A i, j \in DOMAIN last.result :
         last.result[i] = last.result[j] => i = j
    /\ \A i \in DOMAIN last.markers :
         last.markers[i] = IF i = 1 THEN <<>>
                           ELSE last.result[(i - 1) * MaxKeys]
    /\ (last.pc = "done" /\ last.st = OK) =>
         /\ {last.result[i] : i \in DOMAIN last.result} = Matching
         /\ Len(last.result) = Cardinality(Matching)
         /\ Len(last.markers) =
              IF Matching = {} THEN 1
              ELSE ((Cardinality(Matching) - 1) \div MaxKeys) + 1
         /\ last.result = GetChildrenFromS3(s3, last.path,
                                            cfg.dest_bucket_prefix_,
                                            FALSE).result

\* The matching keys a request with that marker has still to list.
Remaining(marker) ==
  Cardinality({k \in Matching : marker = <<>> \/ KeyLess(marker, k)})

\* A turn of the loop ends the call or leaves fewer keys to list.
ListProgress ==
  (last.op = "GetChildrenFromS3" /\ last.pc = "request") =>
    \/ last'.pc = "done"
    \/ Remaining(last'.marker) < Remaining(last.marker)

(***************************************************************************)
(* C28.  GetChildrenFromS3 on a bucket that holds any number of keys       *)
(* under the path, more than a page of max_keys included, ends (each turn  *)
(* of the loop is the last or leaves fewer keys to list), and with its     *)
(* requests answered returns OK with each matching key once; the marker    *)
(* of a request is the NextMarker of the response before or, when that     *)
(* truncated response had none, the key of its last object.                *)
(***************************************************************************)
C28_Listing == []ListSafe /\ [][ListProgress]_vars

\* C28 witness: more than a page of keys was listed in two requests, the
\* second from the last key of the first page, by a server that sends no
\* NextMarker.
C28_Witness ==
  /\ last.op = "GetChildrenFromS3"
  /\ last.pc = "done"
  /\ last.st = OK
  /\ ~last.gives
  /\ Len(last.result) = MaxKeys + 2
  /\ Len(last.markers) = 2
  /\ last.markers[2] = last.result[MaxKeys]

(***************************************************************************)
(* AwsS3ClientWrapper: each operation runs the client's request under a    *)
(* Timer whose destructor calls the callback with the op type, the size    *)
(* and success_ (the elapsed time is left out).  hist is what the          *)
(* callback has done: the user's callback, when one is set, has logged     *)
(* the reports, and s3client_result_ holds the last of them.               *)
(***************************************************************************)
MaxCalls == 2

WrapperOps ==
  {"ListObjects", "CreateBucket", "DeleteObject", "CopyObject", "GetObject",
   "PutObject", "HeadObject"}

\* The CloudRequestOpType each wrapper hands to its Timer.
OpType(op) ==
  CASE op = "ListObjects" -> "kListOp"
    [] op = "CreateBucket" -> "kCreateOp"
    [] op = "DeleteObject" -> "kDeleteOp"
    [] op = "CopyObject" -> "kCopyOp"
    [] op = "GetObject" -> "kReadOp"
    [] op = "PutObject" -> "kWriteOp"
    [] op = "HeadObject" -> "kInfoOp"

\* Timer::Timer: success_ starts false.
Timer(type, size) == [type_ |-> type, size_ |-> size, success_ |-> FALSE]

\* The Timer as the wrapper leaves it when the client's request has
\* returned: CreateBucket sets nothing; GetObject sets the size and the
\* success when the request succeeded; the others set the success to that
\* of the outcome.  size is the content length of a GET that succeeded and
\* the size hint of a PUT.
Wrapper(op, succeeds, size) ==
  LET t == Timer(OpType(op), IF op = "PutObject" THEN size ELSE 0)
  IN IF op = "CreateBucket" THEN t
     ELSE IF op = "GetObject"
     THEN IF succeeds THEN [t EXCEPT !.size_ = size, !.success_ = TRUE] ELSE t
     ELSE [t EXCEPT !.success_ = succeeds]

\* Timer::~Timer calls AwsEnv::S3ClientCallback.
S3ClientCallback(h, t) ==
  LET report == [type |-> t.type_, size |-> t.size_, ok |-> t.success_]
  IN [h EXCEPT !.log = IF h.set THEN Append(@, report) ELSE @,
               !.s3client_result_ = report]

WrapInit ==
  /\ cfg \in {Join(b, Options(TRUE, TRUE, 0)) :
                b \in {x \in DelBindings : has_dest_bucket_(x)}}
  /\ local = <<>>
  /\ s3 = <<>>
  /\ now = 0
  /\ wf = Null
  /\ last = Idle
  /\ files_to_delete = <<>>
  /\ running = TRUE
  /\ lock = NoThread
  /\ worker = [pc |-> "off"]
  /\ threads = <<>>
  /\ \E set \in BOOLEAN :
       hist = [set |-> set, log |-> <<>>, calls |-> 0,
               s3client_result_ |-> [type |-> "none", size |-> 0, ok |-> FALSE]]

\* One operation of the wrapper, the request succeeding or not.
DoWrapper(op, succeeds, size) ==
  /\ hist.calls < MaxCalls
  /\ op \notin {"GetObject", "PutObject"} => size = 0
  /\ (op = "GetObject" /\ ~succeeds) => size = 0
  /\ hist' = [S3ClientCallback(hist, Wrapper(op, succeeds, size))
                EXCEPT !.calls = @ + 1]
  /\ last' = [op |-> op, succeeds |-> succeeds, size |-> size,
              before |-> Len(hist.log)]
  /\ UNCHANGED <<cfg, local, s3, now, wf, files_to_delete, running, lock,
                 worker, threads>>

WrapNext ==
  \E op \in WrapperOps, succeeds \in BOOLEAN, size \in 0..MaxSize :
    DoWrapper(op, succeeds, size)

SpecWrap == WrapInit /\ [][WrapNext]_vars

(***************************************************************************)
(* C29.  Each operation of the wrapper reports to the callback once, when  *)
(* it completes, with its own op type and with ok equal to the success of  *)
(* the client's request.                                                   *)
(***************************************************************************)
C29_Telemetry ==
  last.op \in WrapperOps =>
    /\ hist.s3client_result_.type = OpType(last.op)
    /\ hist.s3client_result_.ok = last.succeeds
    /\ hist.set =>
         /\ Len(hist.log) = last.before + 1
         /\ hist.log[Len(hist.log)] = hist.s3client_result_

(***************************************************************************)
(* S3ReadableFile: Read at an offset, Read at the cursor, Skip.  The       *)
(* value is the status, the number of bytes handed back, the file          *)
(* afterwards and the requests sent.                                       *)
(***************************************************************************)
\* A Read that does not look at status_.
S3ReadAt_NoStatus(f, store, offset, n, fails) ==
  IF offset >= f.file_size
  THEN [st |-> OK, size |-> 0, file |-> f, calls |-> <<>>]
  ELSE LET outcome == GetObject(store, f.s3_bucket, f.s3_object, fails)
       IN [st |-> IF outcome.ok THEN OK
                  ELSE IF IsNoSuch(outcome.err) THEN NotFound ELSE IOError,
           size |-> 0, file |-> f,
           calls |-> <<Request("Get", f.s3_bucket, f.s3_object)>>]

\* A range of as many bytes as were asked for, none included.
RangeLen_Asked(n) == n

\* Ranges are inclusive: a read of no byte asks for one.
RangeLen(n) == IF n # 0 THEN n ELSE 1

\* A GET of the bytes first..last of the object.
RangeRequest(bucket, key, first, last_byte) ==
  [op |-> "Get", bucket |-> bucket, key |-> key,
   range |-> <<first, last_byte>>]

\* S3ReadableFile::Read(offset, n, ...): the stored status when it is not
\* OK; nothing past the end; else a ranged GET, trimmed to the size.
S3ReadAt(f, store, offset, n, fails) ==
  IF f.status # OK
  THEN [st |-> f.status, size |-> 0, file |-> f, calls |-> <<>>]
  ELSE IF offset >= f.file_size
  THEN [st |-> OK, size |-> 0, file |-> f, calls |-> <<>>]
  ELSE LET trimmed == IF offset + n > f.file_size
                      THEN f.file_size - offset ELSE n
           outcome == GetObject(store, f.s3_bucket, f.s3_object, fails)
           get == <<RangeRequest(f.s3_bucket, f.s3_object, offset,
                                 offset + RangeLen(trimmed) - 1)>>
       IN IF ~outcome.ok
          THEN [st |-> IF IsNoSuch(outcome.err) THEN NotFound ELSE IOError,
                size |-> 0, file |-> f, calls |-> get]
          ELSE [st |-> OK,
                size |-> IF outcome.obj.size >= offset + trimmed
                         THEN trimmed
                         ELSE IF outcome.obj.size > offset
                         THEN outcome.obj.size - offset ELSE 0,
                file |-> f, calls |-> get]

\* S3ReadableFile::Read(n, ...): a Read at offset_, which advances by what
\* was read when the status is OK.
S3ReadSeq(f, store, n, fails) ==
  LET r == S3ReadAt(f, store, f.offset, n, fails)
  IN IF r.st = OK THEN [r EXCEPT !.file.offset = @ + r.size] ELSE r

\* A Skip that does not stop at the size of the file.
S3Skip_NoCap(f, n) ==
  IF f.status # OK
  THEN [st |-> f.status, size |-> 0, file |-> f, calls |-> <<>>]
  ELSE [st |-> OK, size |-> 0,
        file |-> [f EXCEPT !.offset = f.offset + n],
        calls |-> <<>>]

\* S3ReadableFile::Skip
S3Skip(f, n) ==
  IF f.status # OK
  THEN [st |-> f.status, size |-> 0, file |-> f, calls |-> <<>>]
  ELSE [st |-> OK, size |-> 0,
        file |-> [f EXCEPT !.offset = IF f.offset + n > f.file_size
                                      THEN f.file_size ELSE f.offset + n],
        calls |-> <<>>]

(***************************************************************************)
(* SpecFile: an S3ReadableFile is constructed on the dest object of an     *)
(* sst, which is there or not, and read and skipped in any order; the      *)
(* object may be deleted meanwhile.                                        *)
(***************************************************************************)
FileInit ==
  /\ cfg \in {Join(b, Options(TRUE, TRUE, 0)) :
                b \in {x \in DelBindings : has_dest_bucket_(x)}}
  /\ local = <<>>
  /\ s3 \in Stores(Slots(cfg, {SstName}), MaxSize)
  /\ now = 0
  /\ wf = Null
  /\ last = Idle
  /\ DelInit

\* new S3ReadableFile(env, dest bucket prefix, destname(sst))
DoOpenReadable(fails) ==
  /\ wf = Null
  /\ wf' = S3ReadableFile(s3, cfg.dest_bucket_prefix_, destname(cfg, SstName),
                          fails)
  /\ last' = [op |-> "Open", fails |-> fails,
              found |-> InDest(cfg, s3, SstName)]
  /\ UNCHANGED <<cfg, local, s3, now>>
  /\ UNCHANGED delVars

\* An operation of the file has left r.
FileApply(op, offset, n, fails, r) ==
  /\ wf' = r.file
  /\ last' = [op |-> op, offset |-> offset, n |-> n, fails |-> fails,
              st |-> r.st, size |-> r.size, calls |-> r.calls, pre |-> wf]
  /\ UNCHANGED <<cfg, local, s3, now>>
  /\ UNCHANGED delVars

DoReadSeq(n, fails) ==
  /\ wf # Null
  /\ FileApply("Read", wf.offset, n, fails, S3ReadSeq(wf, s3, n, fails))

DoReadAt(offset, n, fails) ==
  /\ wf # Null
  /\ FileApply("ReadAt", offset, n, fails, S3ReadAt(wf, s3, offset, n, fails))

DoSkip(n) ==
  /\ wf # Null
  /\ FileApply("Skip", wf.offset, n, FALSE, S3Skip(wf, n))

\* Someone else deletes the object, or puts it, while the file is open.
ObjectChanges ==
  /\ wf # Null
  /\ s3' \in Stores(Slots(cfg, {SstName}), MaxSize) \ {s3}
  /\ last' = Idle
  /\ UNCHANGED <<cfg, local, now, wf>>
  /\ UNCHANGED delVars

FileNext ==
  \/ \E fails \in BOOLEAN : DoOpenReadable(fails)
  \/ \E n \in 0..MaxSize, fails \in BOOLEAN : DoReadSeq(n, fails)
  \/ \E offset \in 0..MaxSize, n \in 0..MaxSize, fails \in BOOLEAN :
       DoReadAt(offset, n, fails)
  \/ \E n \in 0..MaxSize : DoSkip(n)
  \/ ObjectChanges

SpecFile == FileInit /\ [][FileNext]_vars

(***************************************************************************)
(* C30.  An S3ReadableFile whose HEAD failed at construction has the       *)
(* status of that HEAD (NotFound when the object was missing) and keeps    *)
(* it: each Read, at the cursor or at an offset, and each Skip returns     *)
(* that status, sends no GET and leaves the cursor where it was, whatever  *)
(* has become of the object since.                                         *)
(***************************************************************************)
C30_FailedHeadSticks ==
  /\ last.op = "Open" =>
       wf.status = IF last.fails THEN IOError
                   ELSE IF last.found THEN OK ELSE NotFound
  /\ (last.op \in {"Read", "ReadAt", "Skip"} /\ last.pre.status # OK) =>
       /\ last.st = last.pre.status
       /\ last.calls = <<>>
       /\ wf = last.pre
       /\ wf.offset = 0

\* C30 witness: the object was missing when the file was constructed and
\* is there now; a Read at the cursor has returned NotFound without a GET.
C30_Witness ==
  /\ last.op = "Read"
  /\ last.n > 0
  /\ last.pre.status = NotFound
  /\ last.st = NotFound
  /\ last.calls = <<>>
  /\ InDest(cfg, s3, SstName)
  /\ s3[DestSlot(cfg, SstName)].size > 0

\* The last operation was a Read at an offset on a file that was opened
\* with success; the object is as it was then and the request, if one was
\* sent, was answered.
ReadAtOpened ==
  /\ last.op = "ReadAt"
  /\ last.pre.status = OK
  /\ ~last.fails
  /\ InDest(cfg, s3, SstName)
  /\ s3[DestSlot(cfg, SstName)].size = last.pre.file_size

(***************************************************************************)
(* C31.  Read(offset, n) on an S3ReadableFile of size S returns OK with    *)
(* min(n, S - offset) bytes, asked for from offset on, when offset < S,    *)
(* and OK with nothing and no GET when offset >= S; with n = 0 and         *)
(* offset < S it asks for the one byte at offset and hands back nothing.   *)
(* The cursor is left alone.                                               *)
(***************************************************************************)
C31_RandomRead ==
  ReadAtOpened =>
    LET S == last.pre.file_size
        want == IF last.n < S - last.offset THEN last.n ELSE S - last.offset
    IN /\ last.st = OK
       /\ wf = last.pre
       /\ IF last.offset >= S
          THEN last.size = 0 /\ last.calls = <<>>
          ELSE /\ last.size = want
               /\ Len(last.calls) = 1
               /\ last.calls[1].op = "Get"
               /\ <<last.calls[1].bucket, last.calls[1].key>>
                    = DestSlot(cfg, SstName)
               /\ last.calls[1].range =
                    IF last.n = 0 THEN <<last.offset, last.offset>>
                    ELSE <<last.offset, last.offset + want - 1>>

\* C31 witness: a Read past the end by one byte was trimmed: of the two
\* bytes asked for at offset 1 of a file of two, the one byte was read.
C31_Witness ==
  /\ ReadAtOpened
  /\ last.pre.file_size = 2
  /\ last.offset = 1
  /\ last.n = 2
  /\ last.size = 1
  /\ last.calls[1].range = <<1, 1>>

(***************************************************************************)
(* AwsEnv::GetChildren.  The value is the status and the vector handed     *)
(* back: the keys listed in src, the keys listed in dest, the leaf names   *)
(* of the local directory.                                                 *)
(***************************************************************************)
\* base_env_->GetChildren: the leaf names of the files of the directory.
PosixGetChildren(loc, path, fails) ==
  IF fails \/ ~LocalExists(loc, path)
  THEN [st |-> IOError, result |-> <<>>]
  ELSE [st |-> OK,
        result |-> SortKeys({basename(f) :
                               f \in {g \in DOMAIN loc :
                                        g # path /\ dirname(g) = path}})]

GetChildren(c, loc, store, path, fault) ==
  LET s == GetChildrenFromS3(store, srcname(c, path), c.src_bucket_prefix_,
                             fault.src)
      d == GetChildrenFromS3(store, srcname(c, path), c.dest_bucket_prefix_,
                             fault.dest)
      l == PosixGetChildren(loc, path, fault.local)
      listDest == has_dest_bucket_(c) /\ has_two_unique_buckets_(c)
      r1 == IF has_src_bucket_(c) THEN s.result ELSE <<>>
      r2 == IF listDest THEN r1 \o d.result ELSE r1
  IN IF has_src_bucket_(c) /\ s.st # OK THEN [st |-> s.st, result |-> r1]
     ELSE IF listDest /\ d.st # OK THEN [st |-> d.st, result |-> r2]
     ELSE IF l.st # OK THEN [st |-> l.st, result |-> r2]
     ELSE [st |-> OK, result |-> r2 \o l.result]

(***************************************************************************)
(* SpecKids: GetChildren of the directory, over every binding; the         *)
(* directory is there locally or not, with an sst in it or not; each       *)
(* bucket holds, or not, the marker of the directory and a key under it.   *)
(***************************************************************************)
KidsSlots(c) ==
  (IF has_dest_bucket_(c)
   THEN {<<GetBucket(c.dest_bucket_prefix_), destname(c, DirName)>>,
         <<GetBucket(c.dest_bucket_prefix_),
           destname(c, DirName) \o <<"/", "MANIFEST">> >>}
   ELSE {})
  \cup
  (IF has_src_bucket_(c)
   THEN {<<GetBucket(c.src_bucket_prefix_), srcname(c, DirName)>>}
   ELSE {})

KidsInit ==
  /\ cfg \in {Join(b, Options(TRUE, TRUE, 0)) : b \in Bindings}
  /\ local \in {<<>>, [f \in {DirName} |-> DirEntry],
                [f \in {DirName, SstName} |->
                   IF f = DirName THEN DirEntry ELSE 1]}
  /\ s3 \in Stores(KidsSlots(cfg), 0)
  /\ now = 0
  /\ wf = Null
  /\ last = Idle
  /\ DelInit

DoGetChildren(path, fault) ==
  /\ last' = [op |-> "GetChildren", path |-> path, fault |-> fault,
              out |-> GetChildren(cfg, local, s3, path, fault)]
  /\ UNCHANGED <<cfg, local, s3, now, wf>>
  /\ UNCHANGED delVars

KidsNext ==
  \E fault \in [src : BOOLEAN, dest : BOOLEAN, local : BOOLEAN] :
    DoGetChildren(DirName, fault)

SpecKids == KidsInit /\ [][KidsNext]_vars

\* How often x is in the sequence.
Occurs(seq, x) == Cardinality({i \in DOMAIN seq : seq[i] = x})

\* The keys of the bucket under the prefix.
KeysUnder(bucket, prefix) ==
  {x[2] : x \in {y \in DOMAIN s3 : y[1] = bucket /\ IsPrefix(prefix, y[2])}}

(***************************************************************************)
(* C32.  With a dest bucket, GetChildren(path), its requests answered,     *)
(* hands back the keys of dest under destname(path), the keys of src       *)
(* under srcname(path) when there is a src bucket, and the local           *)
(* children, a name as often as it is listed.                              *)
(***************************************************************************)
C32_GetChildrenFolds ==
  (last.op = "GetChildren" /\ has_dest_bucket_(cfg)
     /\ ~last.fault.src /\ ~last.fault.dest /\ ~last.fault.local
     /\ LocalExists(local, last.path)) =>
    LET dest == KeysUnder(GetBucket(cfg.dest_bucket_prefix_),
                          destname(cfg, last.path))
        src == IF has_src_bucket_(cfg)
               THEN KeysUnder(GetBucket(cfg.src_bucket_prefix_),
                              srcname(cfg, last.path))
               ELSE {}
        kids == PosixGetChildren(local, last.path, FALSE).result
        count(x) == (IF x \in dest THEN 1 ELSE 0) + (IF x \in src THEN 1 ELSE 0)
                      + Occurs(kids, x)
    IN /\ last.out.st = OK
       /\ \A x \in dest \cup src \cup {kids[i] : i \in DOMAIN kids}
                 \cup {last.out.result[i] : i \in DOMAIN last.out.result} :
            Occurs(last.out.result, x) = count(x)

\* The last operation was the Close, called or run by the destructor, of
\* the S3WritableFile of an sst whose local handle was open.
SstClosing ==
  /\ last.op \in {"Close", "Destroy"}
  /\ last.file.kind = "s3"
  /\ IsSstFile(last.fname)
  /\ last.pre.open

(***************************************************************************)
(* C33 (checked under SpecWrite).  The Close of an sst removes the local   *)
(* file only after the upload: when the local close, the size probe or     *)
(* the PUT fails, or the file is empty and the upload is refused, Close    *)
(* returns the error and the local file is there as it was; and at each    *)
(* instant of the life of the file the local file is there or dest holds   *)
(* the object with what was written.                                       *)
(***************************************************************************)
C33_DeleteAfterUpload ==
  /\ (SstClosing /\ (last.fault \in {"close", "size", "put"}
                       \/ last.pre.size = 0)) =>
       /\ last.st = IOError
       /\ LocalExists(local, last.fname)
       /\ LocalSize(local, last.fname) = last.pre.size
       /\ ~Stored(s3, last.file.s3_bucket_, last.file.s3_object_)
  /\ (SstClosing /\ ~LocalExists(local, last.fname)) =>
       /\ Stored(s3, last.file.s3_bucket_, last.file.s3_object_)
       /\ s3[<<last.file.s3_bucket_, last.file.s3_object_>>].size
            = last.pre.size
       /\ last.pre.size > 0
  /\ IsS3Sst(wf) =>
       \/ LocalExists(local, wf.fname_)
       \/ Stored(s3, wf.s3_bucket_, wf.s3_object_)

\* C33 witness: with keep_local_sst_files = false the PUT of the Close
\* failed: the error came back and the bytes written are still local.
C33_Witness ==
  /\ SstClosing
  /\ ~cfg.keep_local_sst_files
  /\ last.fault = "put"
  /\ last.pre.size > 0
  /\ last.st = IOError
  /\ Len(last.calls) = 1
  /\ LocalSize(local, last.fname) = last.pre.size

(***************************************************************************)
(* C34.  On every construction path the constructor has started            *)
(* file_deletion_thread_ before the destructor joins it, so the            *)
(* destruction of a failed environment inside NewAwsEnv returns.           *)
(***************************************************************************)
C34_ThreadStartedBeforeJoin ==
  last.op = "NewAwsEnv" =>
    /\ \A createFails \in BOOLEAN, streamFails \in BOOLEAN :
         AwsEnvCtor(cfg, createFails, streamFails).thread_started
    /\ last.st # OK => last.returns

(***************************************************************************)
(* C35.  With a dest bucket, a DeleteDir(d) that finds d as CreateDir(d)   *)
(* leaves it (the local directory empty, the marker destname(d) the only   *)
(* object under it) and whose requests are answered returns OK and leaves  *)
(* neither the marker nor the local directory.                             *)
(***************************************************************************)
AsCreated ==
  /\ last.op = "DeleteDir"
  /\ has_dest_bucket_(cfg)
  /\ ~last.args.listFails
  /\ ~last.args.delFails
  /\ last.had
  /\ last.args.listed = <<destname(cfg, last.args.name)>>
  /\ \A f \in DOMAIN local :
       ~(f # last.args.name /\ IsPrefix(last.args.name \o <<"/">>, f))

C35_CreateThenDelete ==
  AsCreated =>
    /\ last.st = OK
    /\ ~Stored(s3, GetBucket(cfg.dest_bucket_prefix_),
               destname(cfg, last.args.name))
    /\ ~LocalExists(local, last.args.name)

(***************************************************************************)
(* C36.  A DeleteFile of an SST that is in dest and has no local copy      *)
(* returns OK: the step that ends the call, the local delete after the     *)
(* entry was pushed, hands OK back when the local file is not there.       *)
(***************************************************************************)
ReturnsFromDeleteFile(p) ==
  /\ threads.producers[p].pc = "local"
  /\ threads'.producers[p].pc = "idle"

DeleteOfUploaded(p) ==
  LET i == threads.producers[p].id
  IN /\ IsSstFile(hist[i].fname)
     /\ hist[i].had
     /\ ~LocalExists(local, hist[i].fname)

C36_DeleteWithoutLocalCopy ==
  [][\A p \in Producers :
       (ReturnsFromDeleteFile(p) /\ DeleteOfUploaded(p)) =>
         /\ hist'[threads.producers[p].id].returned
         /\ hist'[threads.producers[p].id].ret = OK]_vars

(***************************************************************************)
(* C37.  Every PUT that an object-store writable file issues for a local   *)
(* name goes to the key under which FileExists, NewSequentialFile,         *)
(* NewRandomAccessFile and the deferred deletion of DeleteFile look for    *)
(* that name: destname of the name, in the dest bucket.                    *)
(***************************************************************************)
RouterKey(c, fname) ==
  Request("Put", GetBucket(c.dest_bucket_prefix_), destname(c, fname))

C37_PutKeyIsRouterKey ==
  (last.op \in {"Sync", "Close", "Destroy"} /\ last.file.kind = "s3") =>
    \A i \in 1..Len(last.calls) :
      last.calls[i].op = "Put" => last.calls[i] = RouterKey(cfg, last.fname)

(***************************************************************************)
(* C38.  The assertions of S3WritableFile hold for every file the router   *)
(* hands to it: the name of each S3WritableFile that NewWritableFile       *)
(* constructs is that of an SST or a MANIFEST, and each such file that is  *)
(* not a manifest, the file Close goes on to upload, is an SST.            *)
(***************************************************************************)
C38_WritableAsserts ==
  (last.op = "NewWritableFile" /\ wf.kind = "s3") =>
    /\ last.asserts
    /\ IsSstFile(wf.fname_) \/ IsManifestFile(wf.fname_)
    /\ ~wf.is_manifest_ => IsSstFile(wf.fname_)

(***************************************************************************)
(* C39.  RenameFile to IDENTITY with a dest bucket renames the local file  *)
(* only after the identity file was PUT at destname(IDENTITY) and its dbid *)
(* registered (the registration is made when the dest object prefix is not *)
(* empty); when the read, the upload or the registration fails the error   *)
(* is returned and the local source file keeps its name.                   *)
(***************************************************************************)
IdentityRename ==
  /\ last.op = "RenameFile"
  /\ IsIdentityFile(last.args.target)
  /\ has_dest_bucket_(cfg)

Renamed ==
  /\ last.had
  /\ ~LocalExists(local, last.args.name)
  /\ LocalExists(local, last.args.target)

Registered ==
  LET bucket == GetBucket(cfg.dest_bucket_prefix_)
      key == dbid_registry_ \o ReadDbid(local, last.args.target)
  IN /\ Stored(s3, bucket, key)
     /\ s3[<<bucket, key>>].metadata = [dirname |-> cfg.dest_object_prefix_]
     /\ last.calls[Len(last.calls)] = Request("Put", bucket, key)

C39_RenameAfterUpload ==
  IdentityRename =>
    /\ Renamed =>
         /\ last.st = OK
         /\ last.args.fault = "none"
         /\ last.calls # <<>>
         /\ last.calls[1] = Request("Put", GetBucket(cfg.dest_bucket_prefix_),
                                    destname(cfg, last.args.target))
         /\ Stored(s3, GetBucket(cfg.dest_bucket_prefix_),
                   destname(cfg, last.args.target))
         /\ cfg.dest_object_prefix_ # <<>> => Registered
    /\ last.args.fault # "none" =>
         /\ last.st # OK
         /\ last.had => LocalExists(local, last.args.name)
    /\ last.st # OK => (last.had => LocalExists(local, last.args.name))

\* C39 witness: the upload went through, the registration failed, and the
\* source file still has its name.
C39_Witness ==
  /\ IdentityRename
  /\ last.args.fault = "dbid"
  /\ last.had
  /\ last.st = IOError
  /\ Len(last.calls) = 2
  /\ Stored(s3, GetBucket(cfg.dest_bucket_prefix_),
            destname(cfg, last.args.target))
  /\ LocalExists(local, last.args.name)
  /\ ~LocalExists(local, last.args.target)

(***************************************************************************)
(* C40.  For an S3ReadableFile opened with success on an object of size    *)
(* S, the cursor stays within 0..S through every Read at the cursor and    *)
(* every Skip; a Read at the cursor advances it by exactly the number of   *)
(* bytes handed back, which is never more than was asked for; and a Read   *)
(* with the cursor at S or beyond returns OK with no byte, sends no        *)
(* request and leaves the cursor where it was.                             *)
(***************************************************************************)
OpenedOk == last.op \in {"Read", "Skip"} /\ last.pre.status = OK

C40_CursorInBounds ==
  /\ (wf # Null /\ wf.status = OK) =>
       (0 <= wf.offset /\ wf.offset <= wf.file_size)
  /\ (OpenedOk /\ last.op = "Read") =>
       /\ wf.offset = last.pre.offset + last.size
       /\ last.size <= last.n
       /\ last.st # OK => last.size = 0
       /\ wf.file_size = last.pre.file_size
  /\ (OpenedOk /\ last.op = "Read"
        /\ last.pre.offset >= last.pre.file_size) =>
       /\ last.st = OK
       /\ last.size = 0
       /\ last.calls = <<>>
       /\ wf = last.pre
  /\ (OpenedOk /\ last.op = "Skip") =>
       /\ last.st = OK
       /\ wf.offset >= last.pre.offset
       /\ wf.offset <= last.pre.offset + last.n

\* C40 witness: after the cursor was moved to the end of a non-empty
\* object, a Read of one byte or more at the cursor has returned OK with
\* no byte and without a request.
C40_Witness ==
  /\ last.op = "Read"
  /\ last.pre.status = OK
  /\ last.n > 0
  /\ last.pre.file_size > 0
  /\ last.pre.offset = last.pre.file_size
  /\ last.st = OK
  /\ last.size = 0
  /\ last.calls = <<>>
  /\ wf.offset = wf.file_size

============================================================================
